---------------------------- MODULE Spec2Model ----------------------------
(***************************************************************************)
(* Verification model of the judge-reconciliation engine of the backend:   *)
(*   - TokenBucket and the per-model concurrency gates                     *)
(*       (app/integration/judges/rate_limit.py)                            *)
(*   - the retry loops of the Groq / HF judge clients and of _groq_batch   *)
(*       (app/integration/judges/*.py, evaluation_service.py)              *)
(*   - the parsing of a batch response into a verdict list (_groq_batch)   *)
(*   - the chunk orchestration of assess_async                             *)
(* Each subsystem has its own specification over the shared variables; the *)
(* variables of the other subsystems stay at their initial values.         *)
(***************************************************************************)
EXTENDS Integers, Sequences, FiniteSets, TLC

VARIABLES
    \* ---- TokenBucket (rate_limit.py:11-47)
    tokens,      \* self.tokens, in whole tokens
    elapsed,     \* time.time() - self.last, in units of 60/capacity seconds
    lock,        \* self.lock: 0 when free, else the caller holding it
    bpc,         \* position of each caller inside acquire / acquire_async
    required,    \* each caller's local `required`
    \* ---- concurrency gates (rate_limit.py:56-130)
    limit,       \* max(1, _CONC_*) of the model key
    semS,        \* free permits of _SEMS[model]   (threading.Semaphore)
    semA,        \* free permits of _ASEMS[model]  (asyncio.Semaphore)
    gpc,         \* position of each gate user
    gout,        \* how the provider call of a gate user ended, until it leaves the gate
    released,    \* the outcomes after which a permit has been given back so far
    \* ---- one judge call and its retry loop
    max_retries, \* int(os.getenv("GROQ_MAX_RETRIES", "3"))
    build,       \* which side of the unresolved merge the judge modules are built from
    kind,        \* the client called: "batch", "j8b", "j70b" or "hf"
    rpc,         \* position inside the call
    attempt,     \* the loop variable `attempt`
    posts,       \* HTTP requests sent by this call so far
    fmt,         \* req["response_format"]["type"] (batch only)
    degraded,    \* the flag `degraded` (batch only)
    resp,        \* the provider's last answer
    backoff,     \* the backoff sleep in progress, in quarter milliseconds (0: none)
    rresult,     \* how the call ended for its caller
    \* ---- parsing of one batch answer (_groq_batch, lines 246-303)
    items,       \* len(items) of the batch
    answer,      \* the provider's answer: its body, its content, the array in it
    verdicts,    \* the "verdicts" list returned
    ppc,         \* "input" before the answer is parsed, "parsed" after
    \* ---- one run of assess_async
    judge_models, \* req.judge_models after lines 397-414
    batch_size,  \* self._batch_size
    item_sem,    \* free permits of item_sem
    cpc,         \* position of each chunk task (run_one / process_batch)
    jres,        \* per chunk and judge slot: the result of its judge task
    judgments,   \* the evaluation_judgments rows of the run, in insertion order
    aggregates,  \* the evaluation_aggregates row of each item
    runpc,       \* position of assess_async / _run_in_background
    \* ---- majority_label (aggregation.py:8-14)
    mvotes,      \* the list `votes` handed to majority_label
    mresult,     \* what majority_label returned for it
    \* ---- one run of assess (the synchronous path)
    sjudges,     \* req.judge_models, one judge object each (_make_judges)
    spc,         \* position inside assess
    sitem,       \* index of the item the `for it in items` loop is at
    sdata,       \* `data` of each judge called so far for that item
    judge_cls_votes, \* the list judge_cls_votes of that item
    votes_d,     \* votes[d] of that item, d the enabled rubric dimension
    present_count, \* present_count.get(d, 0)
    supporter_conf_sum, \* supporter_conf_sum.get(d, 0.0), in tenths
    anchor_priors, \* the list anchor_priors
    all_item_votes, \* the list all_item_votes
    s_aggregates, \* the evaluation_aggregates row of each item
    ds_labels,   \* ds_labels
    cols,        \* cols = list(zip(*all_item_votes))
    \* ---- fleiss_kappa / cohens_kappa (reliability.py)
    kvotes,      \* the vote matrix votes_per_item
    kfleiss,     \* what fleiss_kappa returned for it, as a fraction
    kcohen,      \* what cohens_kappa returned for its first two columns, if any
    \* ---- one run from POST /run to the end of _run_in_background
    status,      \* evaluation_runs.status of the run
    summary,     \* evaluation_runs.summary: "none" or "written"
    bgpc,        \* position of _run_in_background
    rbatch,      \* self._batch_size
    tpc,         \* position of each chunk task run_one(batch)
    agg_table,   \* the rows of evaluation_aggregates of the run, in insertion order
    upserted,    \* per item: the agg_label of the last upsert_aggregate call, or "none"
    \* ---- acquire_capacity / acquire_capacity_async on a key without a bucket
    BUCKETS,     \* _BUCKETS.get(model_short): 0 (None) or the bucket stored under the key
    created,     \* number of TokenBucket objects constructed for the key
    lpc,         \* position of each caller
    bucket,      \* each caller's local `bucket`: 0 (None) or a bucket
    debited,     \* per caller: the bucket its acquire was made on, 0 before
    \* ---- the batch path: item_sem, judge_sem and the per-model async gate
    isem,        \* free permits of item_sem
    judge_sem,   \* free permits of judge_sem
    asem,        \* free permits of _ASEMS[model_short]
    permits,     \* the permits the three semaphores were created with
    npc,         \* position of each chunk task run_one(batch)
    jpc,         \* position of each _groq_batch task of each chunk
    nattempt     \* `attempt` of each _groq_batch task


bucketVars == <<tokens, elapsed, lock, bpc, required>>
gateVars   == <<limit, semS, semA, gpc, gout, released>>
retryVars  == <<max_retries, build, kind, rpc, attempt, posts, fmt, degraded, resp, rresult,
                backoff>>
parseVars  == <<items, answer, verdicts, ppc>>
chunkVars  == <<judge_models, batch_size, item_sem, cpc, jres, judgments, aggregates, runpc>>
voteVars   == <<mvotes, mresult>>
assessVars == <<sjudges, spc, sitem, sdata, judge_cls_votes, votes_d, present_count,
                 supporter_conf_sum, anchor_priors, all_item_votes, s_aggregates, ds_labels, cols>>
kappaVars  == <<kvotes, kfleiss, kcohen>>
runVars    == <<status, summary, bgpc, rbatch, tpc, agg_table, upserted>>
lazyVars   == <<BUCKETS, created, lpc, bucket, debited>>
nestVars   == <<isem, judge_sem, asem, permits, npc, jpc, nattempt>>
vars       == <<bucketVars, gateVars, retryVars, parseVars, chunkVars, voteVars, assessVars,
               kappaVars,
               runVars,
               lazyVars,
               nestVars>>

\* what a step of one subsystem leaves alone
BucketOnly == UNCHANGED <<gateVars, retryVars, parseVars, chunkVars, voteVars, assessVars,
                          kappaVars, runVars, lazyVars, nestVars>>
GateOnly   == UNCHANGED <<bucketVars, retryVars, parseVars, chunkVars, voteVars, assessVars,
                          kappaVars, runVars, lazyVars, nestVars>>
RetryOnly  == UNCHANGED <<bucketVars, gateVars, parseVars, chunkVars, voteVars, assessVars,
                          kappaVars, runVars, lazyVars, nestVars>>
ParseOnly  == UNCHANGED <<bucketVars, gateVars, retryVars, chunkVars, voteVars, assessVars,
                          kappaVars, runVars, lazyVars, nestVars>>
VoteOnly   == UNCHANGED <<bucketVars, gateVars, retryVars, parseVars, chunkVars, assessVars,
                          kappaVars, runVars, lazyVars, nestVars>>
KappaOnly  == UNCHANGED <<bucketVars, gateVars, retryVars, parseVars, chunkVars, voteVars,
                          assessVars, runVars, lazyVars, nestVars>>
RunOnly    == UNCHANGED <<bucketVars, gateVars, retryVars, parseVars, chunkVars, voteVars,
                          assessVars, kappaVars, lazyVars, nestVars>>
LazyOnly   == UNCHANGED <<bucketVars, gateVars, retryVars, parseVars, chunkVars, voteVars,
                          assessVars, kappaVars, runVars, nestVars>>
NestOnly   == UNCHANGED <<bucketVars, gateVars, retryVars, parseVars, chunkVars, voteVars,
                          assessVars, kappaVars, runVars, lazyVars>>
AssessOnly == UNCHANGED <<bucketVars, gateVars, retryVars, parseVars, chunkVars, voteVars,
                          kappaVars, runVars, lazyVars, nestVars>>
ChunkOnly  == UNCHANGED <<bucketVars, gateVars, parseVars, voteVars, assessVars,
                          max_retries, kind, rpc, attempt, posts, fmt, degraded, resp, rresult,
                          backoff, kappaVars, runVars, lazyVars, nestVars>>

Max(a, b) == IF a >= b THEN a ELSE b
Min(a, b) == IF a <= b THEN a ELSE b

(***************************************************************************)
(*                              TokenBucket                                *)
(***************************************************************************)
\* capacity_per_minute as configured (the model is scaled down from 6000)
CapacityPerMinute == 2
\* number of threads / coroutines that call acquire or acquire_async
NumCallers == 2

Callers == 1..NumCallers
\* self.capacity = max(1, capacity_per_minute)
Capacity == Max(1, CapacityPerMinute)
\* The time unit is 60/capacity seconds, so rate_per_sec is one token per unit.
\* Values of required_tokens a caller may pass (one more than the bucket holds,
\* and a negative one for the max(0.0, .) of line 26).
RequiredInputs == (0 - 1)..(Capacity + 1)

BucketInit ==
    /\ tokens = Capacity
    /\ elapsed = 0
    /\ lock = 0
    /\ bpc = [c \in Callers |-> "idle"]
    /\ required = [c \in Callers |-> 0]

\* time passes; anything beyond a full refill is indistinguishable
Tick ==
    /\ elapsed' = Min(elapsed + 1, Capacity)
    /\ UNCHANGED <<tokens, lock, bpc, required>>
    /\ BucketOnly

\* acquire(required_tokens) / acquire_async(required_tokens) is entered
Acquire(c) ==
    /\ bpc[c] = "idle"
    /\ \E r \in RequiredInputs :
          required' = [required EXCEPT ![c] = Max(0, r)]
    /\ bpc' = [bpc EXCEPT ![c] = "lock"]
    /\ UNCHANGED <<tokens, elapsed, lock>>
    /\ BucketOnly

LockAvailable_NoLock == TRUE

\* `with self.lock:` can be entered
LockAvailable == lock = 0

EnterLock(c) ==
    /\ bpc[c] = "lock"
    /\ LockAvailable
    /\ lock' = c
    /\ bpc' = [bpc EXCEPT ![c] = "refill"]
    /\ UNCHANGED <<tokens, elapsed, required>>
    /\ BucketOnly

\* self._refill()
Refill(c) ==
    /\ bpc[c] = "refill"
    /\ tokens' = Min(Capacity, tokens + elapsed)
    /\ elapsed' = 0
    /\ bpc' = [bpc EXCEPT ![c] = "check"]
    /\ UNCHANGED <<lock, required>>
    /\ BucketOnly

\* if self.tokens >= required
Check(c) ==
    /\ bpc[c] = "check"
    /\ bpc' = [bpc EXCEPT ![c] = IF tokens >= required[c] THEN "debit" ELSE "deficit"]
    /\ UNCHANGED <<tokens, elapsed, lock, required>>
    /\ BucketOnly

\* self.tokens -= required
Debit(c) ==
    /\ bpc[c] = "debit"
    /\ tokens' = tokens - required[c]
    /\ bpc' = [bpc EXCEPT ![c] = "return"]
    /\ UNCHANGED <<elapsed, lock, required>>
    /\ BucketOnly

\* leaving the with block: by `return`, or to the sleep after the deficit
ExitLock(c) ==
    /\ bpc[c] \in {"return", "deficit"}
    /\ lock' = IF lock = c THEN 0 ELSE lock
    /\ bpc' = [bpc EXCEPT ![c] = IF bpc[c] = "return" THEN "idle" ELSE "sleep"]
    /\ UNCHANGED <<tokens, elapsed, required>>
    /\ BucketOnly

\* time.sleep / asyncio.sleep of at most 2.0 s is over
Wake(c) ==
    /\ bpc[c] = "sleep"
    /\ bpc' = [bpc EXCEPT ![c] = "lock"]
    /\ UNCHANGED <<tokens, elapsed, lock, required>>
    /\ BucketOnly

(***************************************************************************)
(*                           Concurrency gates                             *)
(***************************************************************************)
\* largest configured GROQ_*_CONCURRENCY value tried
MaxConc == 2
\* users of the blocking gate (threads in judge()) and of the async gate
NumGateUsers == 2

SyncUsers  == 1..NumGateUsers
AsyncUsers == (NumGateUsers + 1)..(2 * NumGateUsers)
GateUsers  == SyncUsers \cup AsyncUsers
\* how a provider call can end
Outcomes == {"200", "non200", "exception", "timeout"}

GateInit ==
    /\ \E conc \in 0..MaxConc : limit = Max(1, conc)
    /\ semS = limit
    /\ semA = limit
    /\ gpc = [u \in GateUsers |-> "idle"]
    /\ gout = [u \in GateUsers |-> "none"]
    /\ released = {}

\* free permits of the semaphore user u goes through
Permits(u) == IF u \in SyncUsers THEN semS ELSE semA

SetPermits(u, n) ==
    /\ semS' = IF u \in SyncUsers THEN n ELSE semS
    /\ semA' = IF u \in SyncUsers THEN semA ELSE n

\* enter_concurrency(model) / get_async_sem(model): the context is created
GateCall(u) ==
    /\ gpc[u] = "idle"
    /\ gpc' = [gpc EXCEPT ![u] = "enter"]
    /\ UNCHANGED <<limit, semS, semA, gout, released>>
    /\ GateOnly

\* __enter__ / __aenter__: sem.acquire()
GateEnter(u) ==
    /\ gpc[u] = "enter"
    /\ Permits(u) > 0
    /\ SetPermits(u, Permits(u) - 1)
    /\ gpc' = [gpc EXCEPT ![u] = "inflight"]
    /\ UNCHANGED <<limit, gout, released>>
    /\ GateOnly

\* requests.post / client.post ends
ProviderAnswers(u) ==
    /\ gpc[u] = "inflight"
    /\ \E o \in Outcomes : gout' = [gout EXCEPT ![u] = o]
    /\ gpc' = [gpc EXCEPT ![u] = "exit"]
    /\ UNCHANGED <<limit, semS, semA, released>>
    /\ GateOnly

ReleasesOn_SuccessOnly(o) == o = "200"

\* __exit__ / __aexit__ run sem.release() whatever (exc_type, exc, tb) is
ReleasesOn(o) == o \in Outcomes

GateExit(u) ==
    /\ gpc[u] = "exit"
    /\ SetPermits(u, IF ReleasesOn(gout[u]) THEN Permits(u) + 1 ELSE Permits(u))
    /\ released' = IF ReleasesOn(gout[u]) THEN released \cup {gout[u]} ELSE released
    /\ gout' = [gout EXCEPT ![u] = "none"]
    /\ gpc' = [gpc EXCEPT ![u] = "idle"]
    /\ UNCHANGED limit
    /\ GateOnly

(***************************************************************************)
(*                    Judge clients and their retry loops                  *)
(***************************************************************************)
\* largest configured GROQ_MAX_RETRIES value tried
MaxRetriesCfg == 2

Kinds == {"batch", "j8b", "j70b", "hf"}
Builds == {"HEAD", "theirs"}
RetryableStatuses == {429, 500, 502, 503, 504}
Statuses == {200, 400} \cup RetryableStatuses
\* what the body of an answer holds: a well-formed completion, a completion
\* whose content is not JSON, a body without choices (or that is not JSON), a
\* "try again in <not a number>s" hint
\* "try again in <number>s" / "<number>ms" hint (its value in the field hint)
Bodies == {"good", "content_nonjson", "no_choices", "badhint", "hint"}
NoBody == "none"
\* the Retry-After header of an answer in milliseconds, 0 when it has none
RetryAfterValues == {0, 3000}
\* the values of a "try again in" hint, in milliseconds
HintValues == {100, 1500}
\* a transport exception or a timeout has no status: status 0
Responses ==
    [exc : {"transport", "timeout"}, status : {0}, body : {NoBody},
     retry_after : {0}, hint : {0}]
    \cup [exc : {"none"}, status : {200}, body : {"good", "content_nonjson", "no_choices"},
          retry_after : {0}, hint : {0}]
    \cup [exc : {"none"}, status : Statuses \ {200}, body : {"no_choices", "badhint"},
          retry_after : RetryAfterValues, hint : {0}]
    \cup [exc : {"none"}, status : Statuses \ {200}, body : {"hint"},
          retry_after : RetryAfterValues, hint : HintValues]
NoResp == [exc |-> "none", status |-> 0, body |-> NoBody, retry_after |-> 0, hint |-> 0]
\* the loop of a client that never ends is cut after this many requests
PostCap == MaxRetriesCfg + 3

\* no judge call is in progress
RetryQuiet ==
    /\ max_retries = 0
    /\ kind = "batch"
    /\ rpc = "idle"
    /\ attempt = 0
    /\ posts = 0
    /\ fmt = "json_object"
    /\ degraded = FALSE
    /\ resp = NoResp
    /\ rresult = "none"
    /\ backoff = 0

RetryIdle == RetryQuiet /\ build = "HEAD"

RetryInit ==
    /\ max_retries \in 0..MaxRetriesCfg
    /\ build \in Builds
    /\ kind = "batch"
    /\ rpc = "idle"
    /\ attempt = 0
    /\ posts = 0
    /\ fmt = "json_object"
    /\ degraded = FALSE
    /\ resp = NoResp
    /\ rresult = "none"
    /\ backoff = 0

\* the end of a call: what its caller gets
Ends(r) ==
    /\ rpc' = "done"
    /\ rresult' = r
    /\ UNCHANGED <<attempt, fmt, degraded, backoff>>

\* _groq_batch(model, ...) is called; json_schema is used when require_json
\* and the model is not llama-3.1-8b
CallBatch ==
    /\ rpc = "idle"
    /\ kind' = "batch"
    /\ \E schema \in BOOLEAN : fmt' = IF schema THEN "json_schema" ELSE "json_object"
    /\ rpc' = "loop"
    /\ attempt' = 0
    /\ posts' = 0
    /\ degraded' = FALSE
    /\ resp' = NoResp
    /\ rresult' = "none"
    /\ backoff' = 0
    /\ UNCHANGED <<max_retries, build>>
    /\ RetryOnly

\* GroqLlama31_8B_Judge.judge / GroqLlama33_70B_Judge.judge /
\* run_sync -> HFPrometheus2_7B_Judge.judge is called; the 8B judge returns
\* its fallback at once without GROQ_API_KEY
CallJudge(k) ==
    /\ rpc = "idle"
    /\ k \in Kinds \ {"batch"}
    /\ kind' = k
    /\ \E api_key \in BOOLEAN :
          IF k = "j8b" /\ ~api_key
          THEN rpc' = "done" /\ rresult' = "fallback"
          ELSE rpc' = "loop" /\ rresult' = "none"
    /\ attempt' = 0
    /\ posts' = 0
    /\ fmt' = "json_object"
    /\ degraded' = FALSE
    /\ resp' = NoResp
    /\ backoff' = 0
    /\ UNCHANGED <<max_retries, build>>
    /\ RetryOnly

\* `while attempt <= max_retries` / `for attempt in range(max_retries + 1)`;
\* the HF judge sends one request, and a second (repair) one in the HEAD build
LoopGuard ==
    IF kind = "hf" THEN posts = 0 \/ (build = "HEAD" /\ posts = 1)
    ELSE attempt <= max_retries

\* one HTTP request is sent and the provider answers
Post ==
    /\ rpc = "loop"
    /\ LoopGuard
    /\ posts < PostCap
    /\ posts' = posts + 1
    /\ resp' \in Responses
    /\ rpc' = "handle"
    /\ UNCHANGED <<max_retries, build, kind, attempt, fmt, degraded, rresult, backoff>>
    /\ RetryOnly

\* min(max(base, 0.25), hi), in milliseconds
ClampWait(base, hi) == Min(Max(base, 250), hi)

\* base of the backoff after a retryable status: the Retry-After header, else
\* the "try again in" hint of the body, else 0.5 s (_parse_retry_wait of
\* _groq_batch; `suggested` of the judge modules, which raise on a hint that
\* is no number)
ParseRetryWait(r) ==
    IF r.retry_after # 0 THEN r.retry_after
    ELSE IF r.body = "hint" THEN r.hint
    ELSE 500

\* _groq_batch: min(max(base, 0.25), 2.0) * (1 + attempt * 0.5)
BatchBackoff(r, k) == ClampWait(ParseRetryWait(r), 2000) * (4 + 2 * k)

\* 8B and 70B judges: min(max(base, 0.25), 1.25) * (1 + (attempt * 0.25))
JudgeBackoff(r, k) == ClampWait(ParseRetryWait(r), 1250) * (4 + k)

\* random.uniform(0, 0.25): its two ends, in milliseconds
Jitters == {0, 250}

\* wait_s = min(2.0, 0.5 * (2 ** attempt)) + random.uniform(0, 0.25)
ExceptionBackoff(k, jitter) == 4 * (Min(2000, 500 * (2 ^ k)) + jitter)

\* the float(...) of the judge modules raises: no Retry-After header and a
\* hint that is no number
HintRaises(r) == r.retry_after = 0 /\ r.body = "badhint"

\* the except branch of the 8B and 70B loops: another attempt while
\* attempt < max_retries, else break
ExceptBranch ==
    /\ rpc' = IF attempt < max_retries THEN "backoff" ELSE "after"
    /\ attempt' = IF attempt < max_retries THEN attempt + 1 ELSE attempt
    /\ \E jitter \in Jitters :
          backoff' = IF attempt < max_retries THEN ExceptionBackoff(attempt, jitter) ELSE backoff
    /\ UNCHANGED <<fmt, degraded, rresult>>

\* groq_llama31_8b.py:146-214
Handle8B ==
    IF resp.exc # "none" THEN ExceptBranch
    ELSE IF resp.status = 200
         THEN IF resp.body = "no_choices" THEN ExceptBranch ELSE Ends("content")
    ELSE IF resp.status \in RetryableStatuses
         THEN IF HintRaises(resp) THEN ExceptBranch
              ELSE /\ rpc' = "backoff"
                   /\ backoff' = JudgeBackoff(resp, attempt)
                   /\ UNCHANGED <<attempt, fmt, degraded, rresult>>
    ELSE ExceptBranch

\* groq_llama33_70b.py:56-103: `continue` takes the next value of the range
\* (after the sleep, also when the range is used up)
Handle70B ==
    IF resp.exc = "none" /\ resp.status = 200 /\ resp.body # "no_choices"
    THEN Ends("content")
    ELSE IF resp.exc = "none" /\ resp.status \in RetryableStatuses /\ ~HintRaises(resp)
         THEN /\ rpc' = "backoff"
              /\ backoff' = JudgeBackoff(resp, attempt)
              /\ attempt' = attempt + 1
              /\ UNCHANGED <<fmt, degraded, rresult>>
    ELSE ExceptBranch

DegradedFormat_KeepSchema == "json_schema"

\* req["response_format"] = {"type": "json_object"} of line 231
DegradedFormat == "json_object"

\* evaluation_service.py:216-245; client.post is outside any try
HandleBatch ==
    IF resp.exc # "none" THEN Ends("raised")
    ELSE IF resp.status = 200
         THEN /\ rpc' = "after"
              /\ UNCHANGED <<attempt, fmt, degraded, rresult, backoff>>
    ELSE IF fmt = "json_schema" /\ ~degraded
         THEN /\ fmt' = DegradedFormat
              /\ degraded' = TRUE
              /\ attempt' = attempt + 1
              /\ rpc' = "loop"
              /\ UNCHANGED <<rresult, backoff>>
    ELSE IF resp.status \in RetryableStatuses
         THEN /\ rpc' = "backoff"
              /\ backoff' = BatchBackoff(resp, attempt)
              /\ attempt' = attempt + 1
              /\ UNCHANGED <<fmt, degraded, rresult>>
    ELSE /\ rpc' = "after"
         /\ UNCHANGED <<attempt, fmt, degraded, rresult, backoff>>

\* hf_prometheus2_7b.py:17-90 under run_sync (evaluation_service.py:330-341):
\* the judge returns the generated text, or its fallback JSON on an exception;
\* run_sync then runs json.loads on it
HandleHF ==
    IF resp.exc # "none" \/ resp.body \in {"no_choices", "badhint", "hint"}
    THEN Ends("fallback")
    ELSE IF resp.body = "good" THEN Ends("content")
    ELSE IF build = "HEAD" /\ posts = 1
         THEN /\ rpc' = "loop"
              /\ UNCHANGED <<attempt, fmt, degraded, rresult, backoff>>
    ELSE Ends("raised")

Handle ==
    /\ rpc = "handle"
    /\ CASE kind = "batch" -> HandleBatch
         [] kind = "j8b"   -> Handle8B
         [] kind = "j70b"  -> Handle70B
         [] kind = "hf"    -> HandleHF
    /\ UNCHANGED <<max_retries, build, kind, posts, resp>>
    /\ RetryOnly

\* time.sleep(backoff) / asyncio.sleep(backoff) is over
Backoff ==
    /\ rpc = "backoff"
    /\ rpc' = "loop"
    /\ backoff' = 0
    /\ UNCHANGED <<max_retries, build, kind, attempt, posts, fmt, degraded, resp, rresult>>
    /\ RetryOnly

\* after the loop: the judges return their fallback JSON; _groq_batch parses
\* the last answer into verdicts, all of them invalid if it has no choices
AfterLoop ==
    /\ rpc \in {"loop", "after"}
    /\ rpc = "loop" => ~LoopGuard
    /\ IF kind = "batch"
       THEN Ends(IF resp.status = 200 /\ resp.body # "no_choices" THEN "verdicts" ELSE "invalid")
       ELSE Ends("fallback")
    /\ UNCHANGED <<max_retries, build, kind, posts, resp>>
    /\ RetryOnly

\* the caller has its result (or the exception); the client can be called again
CallEnds ==
    /\ rpc = "done"
    /\ rpc' = "idle"
    /\ UNCHANGED <<max_retries, build, kind, attempt, posts, fmt, degraded, resp, rresult,
                   backoff>>
    /\ RetryOnly

(***************************************************************************)
(*              _groq_batch: from the answer to the verdict list           *)
(***************************************************************************)
\* largest batch (len(items)) tried
MaxItems == 2
\* longest top-level array in an answer
MaxArr == 3

\* An element of the provider's array is an object (a verdict), a value that
\* is no object (null, a number, a string), or a nested array of such values.
\* An object is identified by its place <<i, j>>: element i of the array, and
\* place j inside it when element i is a nested array (j = 0 otherwise).
LeafKinds == {"obj", "null"}
NestedArrays == {<<>>, <<"obj">>, <<"null", "obj">>, <<"obj", "obj">>}
Elements ==
    [nested : {FALSE}, leaf : LeafKinds, sub : {<<>>}]
    \cup [nested : {TRUE}, leaf : {"null"}, sub : NestedArrays]

RECURSIVE SeqsUpTo(_, _)
SeqsUpTo(S, k) ==
    IF k = 0 THEN {<<>>}
    ELSE LET shorter == SeqsUpTo(S, k - 1)
         IN  shorter \cup {Append(q, e) : q \in {x \in shorter : Len(x) = k - 1}, e \in S}

\* resp.json(): not JSON, a JSON array, an object without "choices", or a
\* completion
BodyKinds == {"not_json", "is_list", "no_choices", "choices"}
\* choices[0]["message"]["content"]: a JSON array, a JSON object, another JSON
\* value, text around one [...] array, text without brackets, text whose
\* [...] block is not JSON, or no string at all
ContentKinds == {"array", "object", "scalar", "text_array", "text_plain",
                 "text_bad_array", "not_a_string"}
HasArray(c) == c \in {"array", "text_array"}

Answers ==
    [body : {"choices"}, content : {"array", "text_array"}, arr : SeqsUpTo(Elements, MaxArr)]
    \cup [body : {"choices"}, content : ContentKinds \ {"array", "text_array"}, arr : {<<>>}]
    \cup [body : BodyKinds \ {"choices"}, content : {"scalar"}, arr : {<<>>}]

\* _invalid_verdict()
InvalidVerdict == [t |-> "invalid", at |-> <<0, 0>>]

AllInvalid(n) == [k \in 1..n |-> InvalidVerdict]

RECURSIVE FlattenNested(_, _, _)
FlattenNested(sub, i, j) ==
    IF j > Len(sub) THEN <<>>
    ELSE <<[t |-> sub[j], at |-> <<i, j>>]>> \o FlattenNested(sub, i, j + 1)

\* _flatten_list(x), lines 266-273
RECURSIVE FlattenFrom(_, _)
FlattenFrom(x, i) ==
    IF i > Len(x) THEN <<>>
    ELSE (IF x[i].nested THEN FlattenNested(x[i].sub, i, 1)
          ELSE <<[t |-> x[i].leaf, at |-> <<i, 0>>]>>)
         \o FlattenFrom(x, i + 1)

_flatten_list(x) == FlattenFrom(x, 1)

\* arr = [e for e in arr if isinstance(e, dict)], line 288
RECURSIVE KeepDicts(_)
KeepDicts(q) ==
    IF q = <<>> THEN <<>>
    ELSE (IF Head(q).t = "obj" THEN <<Head(q)>> ELSE <<>>) \o KeepDicts(Tail(q))

AdjustLength_NoTruncate(arr, n) ==
    IF Len(arr) < n THEN arr \o AllInvalid(n - Len(arr)) ELSE arr

\* lines 290-295: pad with invalid verdicts, or cut to len(items)
AdjustLength(arr, n) ==
    LET fitted == IF Len(arr) < n THEN arr \o AllInvalid(n - Len(arr))
                  ELSE IF Len(arr) > n THEN SubSeq(arr, 1, n)
                  ELSE arr
    IN  IF fitted = <<>> THEN AllInvalid(n) ELSE fitted

\* json.loads(content) and the [...] fallback of lines 274-286; "raise" stands
\* for an exception that reaches the except of line 297
ParsedArray(a) ==
    CASE a.content \in {"array", "text_array"} -> _flatten_list(a.arr)
      [] a.content = "object"     -> <<[t |-> "obj", at |-> <<1, 0>>]>>
      [] a.content = "scalar"     -> <<[t |-> "null", at |-> <<1, 0>>]>>
      [] a.content = "text_plain" -> <<>>

ParseRaises(a) ==
    \/ a.body # "choices"
    \/ a.content \in {"text_bad_array", "not_a_string"}

\* the "verdicts" of the dict _groq_batch returns, lines 246-303
GroqBatchVerdicts(n, a) ==
    IF ParseRaises(a) THEN AllInvalid(n)
    ELSE AdjustLength(KeepDicts(ParsedArray(a)), n)

ParseIdle ==
    /\ items = 0
    /\ answer = [body |-> "not_json", content |-> "scalar", arr |-> <<>>]
    /\ verdicts = <<>>
    /\ ppc = "input"

ParseInit ==
    /\ items \in 0..MaxItems
    /\ answer \in Answers
    /\ verdicts = <<>>
    /\ ppc = "input"

\* the answer is parsed and the verdict list returned
ParseAnswer ==
    /\ ppc = "input"
    /\ verdicts' = GroqBatchVerdicts(items, answer)
    /\ ppc' = "parsed"
    /\ UNCHANGED <<items, answer>>
    /\ ParseOnly

(***************************************************************************)
(*                     majority_label (aggregation.py)                     *)
(***************************************************************************)
\* longest vote list tried
MaxVotes == 4

CATS == {"ambiguous", "unambiguous"}
\* what a vote list can hold: the two categories and a value outside them
VoteValues == CATS \cup {"maybe"}

Counted_NoFilter(votes) == votes

\* [v for v in votes if v in CATS]
Counted(votes) == SelectSeq(votes, LAMBDA v : v \in CATS)

\* Counter(...).most_common(): the labels met, with their counts, by falling
\* count; labels with equal counts stay in the order in which they were met
most_common(counted) ==
    LET cnt(c) == Len(SelectSeq(counted, LAMBDA v : v = c))
        first == counted[1]
        later == SelectSeq(counted, LAMBDA v : v # first)
    IN  IF later = <<>> THEN << <<first, cnt(first)>> >>
        ELSE IF cnt(later[1]) > cnt(first)
             THEN << <<later[1], cnt(later[1])>>, <<first, cnt(first)>> >>
             ELSE << <<first, cnt(first)>>, <<later[1], cnt(later[1])>> >>

\* majority_label(votes) -> (label, counts, tie)
majority_label(votes) ==
    LET counted == Counted(votes)
        top == most_common(counted)
    IN  IF counted = <<>>
        THEN [label |-> "ambiguous", counts |-> [c \in CATS |-> 0], tie |-> TRUE]
        ELSE [label |-> top[1][1],
              counts |-> [c \in CATS |-> Len(SelectSeq(counted, LAMBDA v : v = c))],
              tie |-> Len(top) > 1 /\ top[1][2] = top[2][2]]

\* how often c occurs in votes
NumberOf(c, votes) == Len(SelectSeq(votes, LAMBDA v : v = c))

VoteIdle ==
    /\ mvotes = <<>>
    /\ mresult = majority_label(<<>>)

\* majority_label is called with the list so far and one more vote
CastVote(v) ==
    /\ Len(mvotes) < MaxVotes
    /\ mvotes' = Append(mvotes, v)
    /\ mresult' = majority_label(Append(mvotes, v))
    /\ VoteOnly

(***************************************************************************)
(*               dawid_skene_binary (aggregation.py:17-67)                 *)
(***************************************************************************)
\* The accuracies a[c] are kept as exact fractions [n, d] in lowest terms and
\* the two scores of a row are compared by cross-multiplication.
RECURSIVE GCD(_, _)
GCD(a, b) == IF b = 0 THEN a ELSE GCD(b, a % b)

Frac(n, d) == [n |-> n \div GCD(n, d), d |-> d \div GCD(n, d)]

RECURSIVE Pow(_, _)
Pow(x, k) == IF k = 0 THEN 1 ELSE x * Pow(x, k - 1)

\* max_iter of dawid_skene_binary
max_iter == 50

\* z before the first iteration: the prior of the item when it is a category,
\* else the majority label of its votes
InitialLabels(votes_per_item, priors) ==
    [i \in 1..Len(votes_per_item) |->
        IF i <= Len(priors) /\ priors[i] \in CATS
        THEN priors[i]
        ELSE majority_label(votes_per_item[i]).label]

\* a = {"ambiguous": 0.7, "unambiguous": 0.7}
InitialAccuracy == [c \in CATS |-> Frac(7, 10)]

RECURSIVE SumOver(_, _)
\* f[1] + ... + f[k]
SumOver(f, k) == IF k = 0 THEN 0 ELSE f[k] + SumOver(f, k - 1)

\* max(0.51, min(0.99, num / den))
Clamp(num, den) ==
    IF 100 * num < 51 * den THEN Frac(51, 100)
    ELSE IF 100 * num > 99 * den THEN Frac(99, 100)
    ELSE Frac(num, den)

\* m_step: a[c] becomes the share of the valid votes equal to z among the items
\* with z = c, clamped; it keeps its value when no such vote exists
m_step(z, votes_per_item, a) ==
    LET N == Len(votes_per_item)
        den(c) == SumOver([i \in 1..N |->
                     IF z[i] = c THEN Len(Counted(votes_per_item[i])) ELSE 0], N)
        num(c) == SumOver([i \in 1..N |->
                     IF z[i] = c THEN NumberOf(c, votes_per_item[i]) ELSE 0], N)
    IN  [c \in CATS |-> IF den(c) > 0 THEN Clamp(num(c), den(c)) ELSE a[c]]

\* max(CATS, key=score): "ambiguous" unless the score of "unambiguous" is
\* strictly larger.  With na and nu the numbers of the two votes of the row,
\*   score[ambiguous]   = a_amb^na * (1 - a_amb)^nu
\*   score[unambiguous] = a_una^nu * (1 - a_una)^na
WeightedLabel(votes, a) ==
    LET na == NumberOf("ambiguous", votes)
        nu == NumberOf("unambiguous", votes)
        pa == a["ambiguous"]
        pu == a["unambiguous"]
        \* a_amb / (1 - a_una)   and   (1 - a_amb) / a_una
        X == Frac(pa.n * pu.d, pa.d * (pu.d - pu.n))
        W == Frac((pa.d - pa.n) * pu.d, pa.d * pu.n)
    IN  IF Pow(X.n, na) * Pow(W.n, nu) >= Pow(X.d, na) * Pow(W.d, nu)
        THEN "ambiguous" ELSE "unambiguous"

RECURSIVE DSLoop(_, _, _, _)
\* the `for _ in range(max_iter)` loop, left when z no longer changes: a2 is
\* a after m_step, z2 the labels after the hard update (the set constructors
\* bind a2 and z2, so that each is computed once)
DSLoop(z, a, votes_per_item, left) ==
    IF left = 0 THEN z
    ELSE CHOOSE r \in
            {IF z2 = z THEN z2 ELSE DSLoop(z2, a2, votes_per_item, left - 1) :
                <<a2, z2>> \in
                    {<<m, [i \in 1..Len(votes_per_item) |->
                              WeightedLabel(votes_per_item[i], m)]>> :
                        m \in {m_step(z, votes_per_item, a)}}} : TRUE

dawid_skene_binary_OneIteration(votes_per_item, priors) ==
    DSLoop(InitialLabels(votes_per_item, priors), InitialAccuracy, votes_per_item, 1)

dawid_skene_binary(votes_per_item, priors) ==
    DSLoop(InitialLabels(votes_per_item, priors), InitialAccuracy, votes_per_item, max_iter)

(***************************************************************************)
(*         assess_async: chunks, judge tasks, judgments, aggregates        *)
(***************************************************************************)
\* number of items of the run
NumItems == 2
\* largest EVAL_ITEM_CONCURRENCY tried
MaxItemConc == 2

Items == 1..NumItems
G8  == "groq/llama-3.1-8b-instant"
G70 == "groq/llama-3.3-70b-versatile"
HF  == "hf/prometheus-7b-v2.0"
\* DEFAULT_JUDGES of the request model
DEFAULT_JUDGES == <<G8, G70, HF>>
\* judge lists a request may carry (after the alias mapping of line 398)
RequestedJudges == {DEFAULT_JUDGES, <<G8, G70, G8>>}

_is_groq(mid) == mid \in {G8, G70}
SUPPORTED_SYNC == {HF}

InSeq(x, q) == \E k \in 1..Len(q) : q[k] = x

RECURSIVE AddDefaults(_, _)
AddDefaults(final, defaults) ==
    IF defaults = <<>> \/ Len(final) >= 3 THEN final
    ELSE AddDefaults(IF InSeq(Head(defaults), final) THEN final
                     ELSE Append(final, Head(defaults)),
                     Tail(defaults))

\* lines 403-414: unknown ids are dropped, the defaults fill the list up to 3
FinalJudges(requested) ==
    AddDefaults(SelectSeq(requested, LAMBDA m : _is_groq(m) \/ m \in SUPPORTED_SYNC),
                <<G8, HF, G70>>)

\* _chunk(items, batch_size): the chunk an item falls in
ChunkOf(it) == ((it - 1) \div batch_size) + 1
Chunks == 1..ChunkOf(NumItems)
ItemsOf(ch) == {it \in Items : ChunkOf(it) = ch}
\* j1_id, j2_id, j3_id of lines 312-314
Slots == 1..3
JudgeId(k) ==
    IF k = 1 THEN judge_models[1]
    ELSE IF k = 2 THEN (IF Len(judge_models) > 1 THEN judge_models[2] ELSE judge_models[1])
    ELSE (IF Len(judge_models) > 2 THEN judge_models[3] ELSE "none")
HasSlot(k) == JudgeId(k) # "none"

\* what a verdict says about the class and about the one enabled rubric
\* dimension: the label, the "pass" of the leaf ("absent" when the leaf or
\* its "pass" is missing) and its "confidence" in tenths (<<>> when missing)
RawInvalid == [label |-> "null", pass |-> "absent", conf |-> <<>>]
ProviderVerdicts ==
    {[label |-> "ambiguous", pass |-> "true", conf |-> <<9>>],
     [label |-> "unambiguous", pass |-> "false", conf |-> <<8>>]}
\* the fallback JSON of the judge modules (both sides of the merge)
Fallback == [label |-> "unambiguous",
             pass |-> IF build = "HEAD" THEN "false" ELSE "true",
             conf |-> IF build = "HEAD" THEN <<0>> ELSE <<5>>]

\* _normalize_verdict, lines 112-147
NormalizeVerdict(v) ==
    [label |-> IF v.label \in CATS THEN v.label ELSE "ambiguous",
     pass  |-> IF v.pass = "false" THEN "false" ELSE "true",
     conf  |-> IF v.conf = <<>> THEN <<5>> ELSE v.conf]

Pending == [st |-> "pending", vs |-> <<>>]

ChunkQuiet ==
    /\ judge_models = DEFAULT_JUDGES
    /\ batch_size = 1
    /\ item_sem = 1
    /\ cpc = [ch \in 1..NumItems |-> "queued"]
    /\ jres = [ch \in 1..NumItems |-> [k \in Slots |-> Pending]]
    /\ judgments = <<>>
    /\ aggregates = [it \in Items |-> [present |-> FALSE]]
    /\ runpc = "processing"

ChunkInit ==
    /\ \E r \in RequestedJudges : judge_models = FinalJudges(r)
    /\ batch_size \in 1..NumItems
    /\ item_sem \in 1..MaxItemConc
    /\ cpc = [ch \in Chunks |-> "queued"]
    /\ jres = [ch \in Chunks |-> [k \in Slots |-> Pending]]
    /\ judgments = <<>>
    /\ aggregates = [it \in Items |-> [present |-> FALSE]]
    /\ runpc = "processing"

\* run_one: `async with item_sem`, then process_batch starts the judge tasks
StartChunk(ch) ==
    /\ ch \in Chunks
    /\ cpc[ch] = "queued"
    /\ item_sem > 0
    /\ item_sem' = item_sem - 1
    /\ cpc' = [cpc EXCEPT ![ch] = "judging"]
    /\ UNCHANGED <<judge_models, batch_size, jres, judgments, aggregates, runpc, build>>
    /\ ChunkOnly

\* The results a judge task can end with.  A Groq judge goes through
\* _groq_batch: verdicts of the provider, all-invalid verdicts after a terminal
\* failure, or the transport exception.  The HF judge goes through run_sync:
\* the verdicts it generated, its fallback JSON, or the exception of json.loads.
JudgeResults(ch, k) ==
    {[st |-> "ok", vs |-> f] : f \in [ItemsOf(ch) -> ProviderVerdicts]}
    \cup {[st |-> "failed",
           vs |-> [it \in ItemsOf(ch) |->
                      IF _is_groq(JudgeId(k)) THEN RawInvalid ELSE Fallback]]}
    \cup {[st |-> "raised", vs |-> <<>>]}

\* one of the judge tasks of lines 344-348 ends
JudgeReturns(ch, k) ==
    /\ ch \in Chunks
    /\ cpc[ch] = "judging"
    /\ HasSlot(k)
    /\ jres[ch][k].st = "pending"
    /\ \E r \in JudgeResults(ch, k) : jres' = [jres EXCEPT ![ch][k] = r]
    /\ UNCHANGED <<judge_models, batch_size, item_sem, cpc, judgments, aggregates, runpc, build>>
    /\ ChunkOnly

\* asyncio.gather (lines 351-355) re-raises the first exception of a judge
\* task; it leaves process_batch and run_one, which frees the item permit
ChunkRaises(ch) ==
    /\ ch \in Chunks
    /\ cpc[ch] = "judging"
    /\ \E k \in Slots : jres[ch][k].st = "raised"
    /\ cpc' = [cpc EXCEPT ![ch] = "raised"]
    /\ item_sem' = item_sem + 1
    /\ UNCHANGED <<judge_models, batch_size, jres, judgments, aggregates, runpc, build>>
    /\ ChunkOnly

\* the row add_judgment inserts for item it and judge slot k
Judgment(ch, it, k) ==
    LET v == NormalizeVerdict(jres[ch][k].vs[it])
    IN  [item |-> it, judge |-> JudgeId(k), slot |-> k,
         label |-> v.label, pass |-> v.pass, conf |-> v.conf,
         failed |-> jres[ch][k].st = "failed"]

RECURSIVE RowsFrom(_, _, _)
\* the rows of slots ks for the items of ch from item it on, in item order
RowsFrom(ch, it, ks) ==
    IF it > NumItems THEN <<>>
    ELSE (IF it \in ItemsOf(ch)
          THEN [n \in 1..Len(ks) |-> Judgment(ch, it, ks[n])]
          ELSE <<>>)
         \o RowsFrom(ch, it + 1, ks)

\* lines 358-368: all judge tasks returned; their verdicts are normalised and
\* stored, judges 1 and 2 item by item, then judge 3
Persist(ch) ==
    /\ ch \in Chunks
    /\ cpc[ch] = "judging"
    /\ \A k \in Slots : HasSlot(k) => jres[ch][k].st \in {"ok", "failed"}
    /\ judgments' = judgments \o RowsFrom(ch, 1, <<1, 2>>)
                       \o (IF HasSlot(3) THEN RowsFrom(ch, 1, <<3>>) ELSE <<>>)
    /\ cpc' = [cpc EXCEPT ![ch] = "aggregate"]
    /\ UNCHANGED <<judge_models, batch_size, item_sem, jres, aggregates, runpc, build>>
    /\ ChunkOnly

NeedsReview_TieOnly(m, cls_votes) == m.tie

\* needs_review = bool(tie or (len(set(judge_cls_votes)) > 1))
NeedsReview(m, cls_votes) ==
    m.tie \/ Cardinality({cls_votes[n] : n \in 1..Len(cls_votes)}) > 1

\* yes = y >= (total_present // 2 + 1) if total_present > 2 else y >= 1,
\* and None when total_present == 0
YesNo(y, total_present) ==
    IF total_present = 0 THEN "null"
    ELSE IF (IF total_present > 2 THEN y >= (total_present \div 2) + 1 ELSE y >= 1)
         THEN "true" ELSE "false"

\* conf[d] = round(vote_strength * avg_conf, 3), in thousandths, with
\* vote_strength = y / total_present and avg_conf = conf_sum / max(1, y), conf_sum
\* being supporter_conf_sum.get(d, 0.0); None (<<>>) when total_present == 0 or
\* y == 0.  The sum is in tenths, so that the product is 100 * sum / total_present.
Confidence(y, total_present, conf_sum) ==
    IF total_present = 0 \/ y = 0 THEN <<>>
    ELSE << (200 * conf_sum + total_present) \div (2 * total_present) >>

\* lines 436-494: the aggregate computed from the rows js stored for an item.
\* y counts the rows that pass, total_present the entries of
\* judge_votes[d], a dict keyed by judge_model.
AggregateRows(js) ==
    LET cls_votes ==
            [n \in 1..Len(SelectSeq(js, LAMBDA j : j.label \in CATS)) |->
                SelectSeq(js, LAMBDA j : j.label \in CATS)[n].label]
        voters == {js[n].judge : n \in {m \in 1..Len(js) : js[m].pass \in {"true", "false"}}}
        y == Len(SelectSeq(js, LAMBDA j : j.pass = "true"))
        total_present == Cardinality(voters)
        supporters == SelectSeq(js, LAMBDA j : j.pass = "true" /\ j.conf # <<>>)
        conf_sum ==
            SumOver([n \in 1..Len(supporters) |-> supporters[n].conf[1]], Len(supporters))
        m == majority_label(cls_votes)
    IN  [present |-> TRUE,
         votes |-> cls_votes,
         y |-> y,
         total_present |-> total_present,
         yesno |-> YesNo(y, total_present),
         confidence |-> Confidence(y, total_present, conf_sum),
         agg_label |-> m.label,
         needs_review |-> NeedsReview(m, cls_votes)]

\* list_judgments_for_item(run, it), then the aggregation of these rows
AggregateOf(it) == AggregateRows(SelectSeq(judgments, LAMBDA j : j.item = it))

\* lines 435-496: the aggregate of every item of the chunk is recomputed from
\* the stored rows and upserted; run_one then frees the item permit
Aggregate(ch) ==
    /\ ch \in Chunks
    /\ cpc[ch] = "aggregate"
    /\ aggregates' = [it \in Items |->
                         IF it \in ItemsOf(ch) THEN AggregateOf(it) ELSE aggregates[it]]
    /\ cpc' = [cpc EXCEPT ![ch] = "done"]
    /\ item_sem' = item_sem + 1
    /\ UNCHANGED <<judge_models, batch_size, jres, judgments, runpc, build>>
    /\ ChunkOnly

\* the gather of line 504 re-raises the exception of a chunk task;
\* _run_in_background marks the run FAILED
RunFails ==
    /\ runpc = "processing"
    /\ \E ch \in Chunks : cpc[ch] = "raised"
    /\ runpc' = "failed"
    /\ UNCHANGED <<judge_models, batch_size, item_sem, cpc, jres, judgments, aggregates, build>>
    /\ ChunkOnly

\* every chunk task returned: assess_async goes on to the summary
RunReturns ==
    /\ runpc = "processing"
    /\ \A ch \in Chunks : cpc[ch] = "done"
    /\ runpc' = "returned"
    /\ UNCHANGED <<judge_models, batch_size, item_sem, cpc, jres, judgments, aggregates, build>>
    /\ ChunkOnly

(***************************************************************************)
(*                    assess: the synchronous path                         *)
(***************************************************************************)
\* number of items of a run of assess
NumSyncItems == 2

SyncItems == 1..NumSyncItems
\* judge lists a request of assess may carry
SyncJudgeLists == {DEFAULT_JUDGES, <<G8, HF>>}
\* what the JSON of a judge says about the class and the rubric dimension
SyncVerdicts == ProviderVerdicts \cup {RawInvalid}
\* match_anchor(...): a category, or None
Priors == CATS \cup {"none"}

AssessStart ==
    /\ spc = "item"
    /\ sitem = 1
    /\ sdata = <<>>
    /\ judge_cls_votes = <<>>
    /\ votes_d = 0
    /\ present_count = 0
    /\ supporter_conf_sum = 0
    /\ anchor_priors = <<>>
    /\ all_item_votes = <<>>
    /\ s_aggregates = [it \in SyncItems |-> [present |-> FALSE]]
    /\ ds_labels = <<>>
    /\ cols = <<>>

AssessQuiet == sjudges = DEFAULT_JUDGES /\ AssessStart

AssessInit == sjudges \in SyncJudgeLists /\ AssessStart

\* lines 567-586: the next item of the loop; the accumulators of the item are
\* created.  (The prior match_anchor finds for the item depends on the item's
\* text alone and is read in the summary only: it is drawn there.)
StartItem ==
    /\ spc = "item"
    /\ sitem <= NumSyncItems
    /\ sdata' = <<>>
    /\ judge_cls_votes' = <<>>
    /\ votes_d' = 0
    /\ present_count' = 0
    /\ supporter_conf_sum' = 0
    /\ spc' = "judges"
    /\ UNCHANGED <<sjudges, sitem, anchor_priors, all_item_votes, s_aggregates,
                   ds_labels, cols>>
    /\ AssessOnly

\* lines 587-664: the next judge is called for the item; its label is appended
\* to judge_cls_votes when it is a category; present_count is created anew
\* for every judge (line 648) and then counts this judge's boolean
JudgeAnswers ==
    /\ spc = "judges"
    /\ Len(sdata) < Len(sjudges)
    /\ \E data \in SyncVerdicts :
          /\ sdata' = Append(sdata, data)
          /\ judge_cls_votes' = IF data.label \in CATS
                                THEN Append(judge_cls_votes, data.label)
                                ELSE judge_cls_votes
          /\ present_count' = IF data.pass \in {"true", "false"} THEN 1 ELSE 0
          /\ votes_d' = IF data.pass = "true" THEN votes_d + 1 ELSE votes_d
          /\ supporter_conf_sum' = IF data.pass = "true" /\ data.conf # <<>>
                                    THEN supporter_conf_sum + data.conf[1]
                                    ELSE supporter_conf_sum
    /\ UNCHANGED <<sjudges, spc, sitem, anchor_priors, all_item_votes, s_aggregates,
                   ds_labels, cols>>
    /\ AssessOnly

\* lines 666-693: after the last judge the item's aggregate is computed and
\* upserted, and the item's votes are appended to all_item_votes
AggregateItem ==
    /\ spc = "judges"
    /\ Len(sdata) = Len(sjudges)
    /\ LET m == majority_label(judge_cls_votes)
       IN  s_aggregates' = [s_aggregates EXCEPT ![sitem] =
               [present |-> TRUE,
                y |-> votes_d,
                total_present |-> present_count,
                yesno |-> YesNo(votes_d, present_count),
                confidence |-> Confidence(votes_d, present_count, supporter_conf_sum),
                agg_label |-> m.label,
                needs_review |-> NeedsReview(m, judge_cls_votes),
                by |-> "aggregation"]]
    /\ all_item_votes' = Append(all_item_votes, judge_cls_votes)
    /\ sitem' = sitem + 1
    /\ spc' = IF sitem = NumSyncItems THEN "summary" ELSE "item"
    /\ UNCHANGED <<sjudges, sdata, judge_cls_votes, votes_d, present_count,
                   supporter_conf_sum, anchor_priors, ds_labels, cols>>
    /\ AssessOnly

\* zip(*rows): as many columns as the shortest row has elements
Zip(rows) ==
    LET width == CHOOSE w \in 0..3 :
                    /\ \A i \in 1..Len(rows) : Len(rows[i]) >= w
                    /\ \/ w = 3
                       \/ \E i \in 1..Len(rows) : Len(rows[i]) = w
    IN  [k \in 1..width |-> [i \in 1..Len(rows) |-> rows[i][k]]]

DemotedNeedsReview_False == FALSE

\* needs_review=True of line 741
DemotedNeedsReview == TRUE

\* lines 695-764: the summary; dawid_skene_binary and the kappa columns are
\* computed from all_item_votes, and the aggregate of every item whose label
\* differs from its Dawid-Skene label is upserted with needs_review = True
Summarise ==
    /\ spc = "summary"
    /\ \E priors \in [SyncItems -> Priors] :
          \E ds \in {dawid_skene_binary(all_item_votes, priors)} :
              /\ anchor_priors' = priors
              /\ ds_labels' = ds
              /\ s_aggregates' = [it \in SyncItems |->
                    IF s_aggregates[it].agg_label # ds[it]
                    THEN [s_aggregates[it] EXCEPT !.needs_review = DemotedNeedsReview,
                                                  !.by = "ds"]
                    ELSE s_aggregates[it]]
    /\ cols' = Zip(all_item_votes)
    /\ spc' = "done"
    /\ UNCHANGED <<sjudges, sitem, sdata, judge_cls_votes, votes_d, present_count,
                   supporter_conf_sum, all_item_votes>>
    /\ AssessOnly

(***************************************************************************)
(*              fleiss_kappa and cohens_kappa (reliability.py)             *)
(***************************************************************************)
\* largest number of items of a vote matrix tried
MaxKappaItems == 3
\* largest number of raters of an item tried
MaxRaters == 2

\* the rows a vote matrix can hold: 1..MaxRaters votes of the categories
KappaRows == UNION {[1..n -> CATS] : n \in 1..MaxRaters}

\* the quotient of two fractions x - y and 1 - y, y # 1: (x - y) / (1 - y)
KappaOf(x, y) ==
    Frac((x.n * y.d - y.n * x.d) * y.d, x.d * y.d * (y.d - y.n))

RECURSIVE MaxLenOf(_, _)
\* max(len(v) for v in votes_per_item)
MaxLenOf(rows, k) == IF k = 0 THEN 0 ELSE Max(Len(rows[k]), MaxLenOf(rows, k - 1))

\* fleiss_kappa(votes_per_item), lines 6-24: n is the longest row; P_bar is
\* the mean of P_i = (cnt1 (cnt1 - 1) + cnt2 (cnt2 - 1)) / (n (n - 1)), or 0
\* when n <= 1; P_e the sum of the squares of p[c] = (votes of c) / (N n)
fleiss_kappa(votes_per_item) ==
    IF votes_per_item = <<>> THEN Frac(0, 1)
    ELSE LET N == Len(votes_per_item)
             n == MaxLenOf(votes_per_item, N)
             cnt(c, i) == NumberOf(c, votes_per_item[i])
             pairs == SumOver([i \in 1..N |->
                          cnt("ambiguous", i) * (cnt("ambiguous", i) - 1)
                          + cnt("unambiguous", i) * (cnt("unambiguous", i) - 1)], N)
             total(c) == SumOver([i \in 1..N |-> cnt(c, i)], N)
             P_bar == IF n > 1 THEN Frac(pairs, n * (n - 1) * N) ELSE Frac(0, 1)
             P_e == IF n > 0
                    THEN Frac(total("ambiguous") * total("ambiguous")
                              + total("unambiguous") * total("unambiguous"),
                              (N * n) * (N * n))
                    ELSE Frac(0, 1)
         IN  IF P_e = Frac(1, 1) THEN Frac(0, 1) ELSE KappaOf(P_bar, P_e)

\* the expected agreement of cohens_kappa: the sum of p1[c] * p2[c]
CohenExpected(v1, v2) ==
    IF Len(v1) = 0 THEN Frac(0, 1)
    ELSE Frac(NumberOf("ambiguous", v1) * NumberOf("ambiguous", v2)
              + NumberOf("unambiguous", v1) * NumberOf("unambiguous", v2),
              Len(v1) * Len(v1))

\* cohens_kappa(v1, v2), lines 26-34, for len(v1) == len(v2)
cohens_kappa(v1, v2) ==
    LET N == Len(v1)
        agree == Cardinality({i \in 1..N : v1[i] = v2[i]})
        p_o == IF N > 0 THEN Frac(agree, N) ELSE Frac(0, 1)
        p_e == CohenExpected(v1, v2)
    IN  IF p_e = Frac(1, 1) THEN Frac(0, 1) ELSE KappaOf(p_o, p_e)

\* pair_cohen["12"] of the summary: cohens_kappa of the first two columns of
\* zip(*all_item_votes) when there are two; <<>> otherwise
PairCohen(rows) ==
    IF Len(Zip(rows)) >= 2 THEN <<cohens_kappa(Zip(rows)[1], Zip(rows)[2])>> ELSE <<>>

KappaIdle ==
    /\ kvotes = <<>>
    /\ kfleiss = fleiss_kappa(<<>>)
    /\ kcohen = <<>>

\* the votes of one more item are added and the kappas of the matrix computed
RateItem(row) ==
    /\ Len(kvotes) < MaxKappaItems
    /\ kvotes' = Append(kvotes, row)
    /\ kfleiss' = fleiss_kappa(Append(kvotes, row))
    /\ kcohen' = PairCohen(Append(kvotes, row))
    /\ KappaOnly

(***************************************************************************)
(*      One run: _run_in_background, the chunk tasks, upsert_aggregate     *)
(***************************************************************************)
\* number of items of the run
NumRunItems == 3

RunItems == 1..NumRunItems
\* _chunk(items, batch_size): the chunk task an item belongs to
RunChunkOf(it) == ((it - 1) \div rbatch) + 1
RunChunks == 1..RunChunkOf(NumRunItems)

\* the run as create_run leaves it (eval_lab.py:280) with its task scheduled
RunStart ==
    /\ status = "QUEUED"
    /\ summary = "none"
    /\ bgpc = "scheduled"
    /\ agg_table = <<>>
    /\ upserted = [it \in RunItems |-> "none"]

RunIdle == RunStart /\ rbatch = 1 /\ tpc = [ch \in RunItems |-> "queued"]

RunInit ==
    /\ RunStart
    /\ rbatch \in 1..NumRunItems
    /\ tpc = [ch \in RunChunks |-> "queued"]

\* _run_in_background calls assess_async: update_run_status(PROCESSING), then
\* the chunk tasks are created and gathered
AssessStarts ==
    /\ bgpc = "scheduled"
    /\ status' = "PROCESSING"
    /\ bgpc' = "assessing"
    /\ UNCHANGED <<summary, rbatch, tpc, agg_table, upserted>>
    /\ RunOnly

\* a chunk task starts its judge tasks and awaits them
TaskStarts(ch) ==
    /\ ch \in RunChunks
    /\ bgpc # "scheduled"
    /\ tpc[ch] = "queued"
    /\ tpc' = [tpc EXCEPT ![ch] = "judging"]
    /\ UNCHANGED <<status, summary, bgpc, rbatch, agg_table, upserted>>
    /\ RunOnly

Existing_AnyItem(rows, it) == {n \in 1..Len(rows) : TRUE}

\* select(EvaluationAggregate).where((run_id == run_id) & (item_pk == item_pk))
Existing(rows, it) == {n \in 1..Len(rows) : rows[n].item = it}

\* upsert_aggregate, lines 63-84: the existing row is updated, else a row is
\* added
upsert_aggregate(rows, it, agg_label) ==
    IF Existing(rows, it) = {}
    THEN Append(rows, [item |-> it, agg_label |-> agg_label])
    ELSE [rows EXCEPT ![CHOOSE n \in Existing(rows, it) :
                           \A m \in Existing(rows, it) : n <= m].agg_label = agg_label]

RECURSIVE UpsertFrom(_, _, _, _)
\* `for it in batch:` of process_batch, from item it on: the aggregate of each
\* item of chunk ch is upserted, labels[it] being its agg_label
UpsertFrom(rows, ch, it, labels) ==
    IF it > NumRunItems THEN rows
    ELSE UpsertFrom(IF RunChunkOf(it) = ch THEN upsert_aggregate(rows, it, labels[it])
                    ELSE rows,
                    ch, it + 1, labels)

\* the judge tasks of a chunk have returned: process_batch stores the
\* judgments and upserts the aggregate of every item of the chunk, without
\* giving up control in between
TaskAggregates(ch) ==
    /\ ch \in RunChunks
    /\ tpc[ch] = "judging"
    /\ \E labels \in [RunItems -> CATS] :
          /\ agg_table' = UpsertFrom(agg_table, ch, 1, labels)
          /\ upserted' = [it \in RunItems |->
                             IF RunChunkOf(it) = ch THEN labels[it] ELSE upserted[it]]
    /\ tpc' = [tpc EXCEPT ![ch] = "done"]
    /\ UNCHANGED <<status, summary, bgpc, rbatch>>
    /\ RunOnly

\* a judge task of the chunk raised: the chunk task ends with the exception
TaskRaises(ch) ==
    /\ ch \in RunChunks
    /\ tpc[ch] = "judging"
    /\ tpc' = [tpc EXCEPT ![ch] = "raised"]
    /\ UNCHANGED <<status, summary, bgpc, rbatch, agg_table, upserted>>
    /\ RunOnly

\* every chunk task returned: assess_async computes the summary and returns it
AssessReturns ==
    /\ bgpc = "assessing"
    /\ \A ch \in RunChunks : tpc[ch] = "done"
    /\ bgpc' = "finish"
    /\ UNCHANGED <<status, summary, rbatch, tpc, agg_table, upserted>>
    /\ RunOnly

\* the gather re-raises the exception of a chunk task; the except branch of
\* _run_in_background (lines 203-207) sets the status, unless that fails too
AssessRaises ==
    /\ bgpc = "assessing"
    /\ \E ch \in RunChunks : tpc[ch] = "raised"
    /\ \E written \in BOOLEAN : status' = IF written THEN "FAILED" ELSE status
    /\ bgpc' = "ended"
    /\ UNCHANGED <<summary, rbatch, tpc, agg_table, upserted>>
    /\ RunOnly

\* repo.finish_run(db, run_id, summary) of lines 100-104: status DONE and the
\* summary are written, or the call raises and the exception is dropped
FinishRun ==
    /\ bgpc = "finish"
    /\ \E written \in BOOLEAN :
          /\ status' = IF written THEN "DONE" ELSE status
          /\ summary' = IF written THEN "written" ELSE summary
    /\ bgpc' = "materialize"
    /\ UNCHANGED <<rbatch, tpc, agg_table, upserted>>
    /\ RunOnly

\* lines 106-202: the records of the job are built and committed; when the
\* job is missing (line 111) or an exception is raised (lines 203-207) the
\* status of the run is set to "FAILED: ..."
Materialize ==
    /\ bgpc = "materialize"
    /\ \E outcome \in {"committed", "job_missing", "raised"} :
          status' = IF outcome = "committed" THEN status ELSE "FAILED"
    /\ bgpc' = "ended"
    /\ UNCHANGED <<summary, rbatch, tpc, agg_table, upserted>>
    /\ RunOnly

(***************************************************************************)
(*        acquire_capacity: the bucket of a key is created on demand       *)
(***************************************************************************)
\* threads calling acquire_capacity, and as many coroutines calling
\* acquire_capacity_async, all with the same model_short
NumLazyCallers == 2

LazyThreads    == 1..NumLazyCallers
LazyCoroutines == (NumLazyCallers + 1)..(2 * NumLazyCallers)
LazyCallers    == LazyThreads \cup LazyCoroutines

\* a key that is not one of the two configured at import (lines 49-52)
LazyInit ==
    /\ BUCKETS = 0
    /\ created = 0
    /\ lpc = [c \in LazyCallers |-> "get"]
    /\ bucket = [c \in LazyCallers |-> 0]
    /\ debited = [c \in LazyCallers |-> 0]

LazyIdle == LazyInit

\* acquire_capacity, line 76: bucket = _BUCKETS.get(model_short)
Get(c) ==
    /\ c \in LazyThreads
    /\ lpc[c] = "get"
    /\ bucket' = [bucket EXCEPT ![c] = BUCKETS]
    /\ lpc' = [lpc EXCEPT ![c] = IF BUCKETS = 0 THEN "create" ELSE "acquire"]
    /\ UNCHANGED <<BUCKETS, created, debited>>
    /\ LazyOnly

\* line 79: bucket = TokenBucket(_TPM_8B)
Create(c) ==
    /\ c \in LazyThreads
    /\ lpc[c] = "create"
    /\ created' = created + 1
    /\ bucket' = [bucket EXCEPT ![c] = created + 1]
    /\ lpc' = [lpc EXCEPT ![c] = "store"]
    /\ UNCHANGED <<BUCKETS, debited>>
    /\ LazyOnly

\* line 80: _BUCKETS[model_short] = bucket
Store(c) ==
    /\ c \in LazyThreads
    /\ lpc[c] = "store"
    /\ BUCKETS' = bucket[c]
    /\ lpc' = [lpc EXCEPT ![c] = "acquire"]
    /\ UNCHANGED <<created, bucket, debited>>
    /\ LazyOnly

\* acquire_capacity_async, lines 85-88: the coroutine looks the bucket up,
\* creates and stores it when there is none, all before its first await
LookupAsync(c) ==
    /\ c \in LazyCoroutines
    /\ lpc[c] = "get"
    /\ IF BUCKETS = 0
       THEN /\ created' = created + 1
            /\ BUCKETS' = created + 1
            /\ bucket' = [bucket EXCEPT ![c] = created + 1]
       ELSE /\ bucket' = [bucket EXCEPT ![c] = BUCKETS]
            /\ UNCHANGED <<BUCKETS, created>>
    /\ lpc' = [lpc EXCEPT ![c] = "acquire"]
    /\ UNCHANGED debited
    /\ LazyOnly

\* lines 81 and 89: bucket.acquire(required_tokens) debits the caller's bucket
DebitBucket(c) ==
    /\ c \in LazyCallers
    /\ lpc[c] = "acquire"
    /\ debited' = [debited EXCEPT ![c] = bucket[c]]
    /\ lpc' = [lpc EXCEPT ![c] = "done"]
    /\ UNCHANGED <<BUCKETS, created, bucket>>
    /\ LazyOnly

(***************************************************************************)
(*   The batch path: item_sem, then judge_sem, then the per-model gate     *)
(***************************************************************************)
\* chunks of the run
NumNestChunks == 2
\* largest EVAL_ITEM_CONCURRENCY: the permits of item_sem
ItemPermits == 1
\* largest EVAL_JUDGE_CONCURRENCY: the permits of judge_sem
JudgePermits == 2
\* largest GROQ_8B_CONCURRENCY: the permits of the gate of the model
GatePermits == 1
\* GROQ_MAX_RETRIES
NestMaxRetries == 1
\* j1_task and j2_task of a chunk, both on the same Groq model
NestJudges == {"j1", "j2"}

NestChunks == 1..NumNestChunks
NestTasks == NestChunks \X NestJudges

NestInit ==
    /\ \E i \in 1..ItemPermits, j \in 1..JudgePermits, g \in 1..GatePermits :
          permits = [item |-> i, judge |-> j, gate |-> g]
    /\ isem = permits["item"]
    /\ judge_sem = permits["judge"]
    /\ asem = permits["gate"]
    /\ npc = [ch \in NestChunks |-> "queued"]
    /\ jpc = [t \in NestTasks |-> "idle"]
    /\ nattempt = [t \in NestTasks |-> 0]

\* no batch run: the semaphores as created, every task at its end
NestIdle ==
    /\ permits = [item |-> 1, judge |-> 1, gate |-> 1]
    /\ isem = 1
    /\ judge_sem = 1
    /\ asem = 1
    /\ npc = [ch \in NestChunks |-> "done"]
    /\ jpc = [t \in NestTasks |-> "done"]
    /\ nattempt = [t \in NestTasks |-> 0]

Aexit_KeepsPermit(free) == free

\* AsyncSemContext.__aexit__: self.asem.release()
Aexit(free) == free + 1

\* run_one: `async with item_sem`, then process_batch creates the judge tasks
\* of the chunk; each is granted its tokens and reaches its first post
EnterItemSem(ch) ==
    /\ npc[ch] = "queued"
    /\ isem > 0
    /\ isem' = isem - 1
    /\ npc' = [npc EXCEPT ![ch] = "judging"]
    /\ jpc' = [t \in NestTasks |-> IF t[1] = ch THEN "want_judge" ELSE jpc[t]]
    /\ UNCHANGED <<judge_sem, asem, permits, nattempt>>
    /\ NestOnly

\* _groq_batch: `async with sem`
EnterJudgeSem(t) ==
    /\ jpc[t] = "want_judge"
    /\ judge_sem > 0
    /\ judge_sem' = judge_sem - 1
    /\ jpc' = [jpc EXCEPT ![t] = "want_gate"]
    /\ UNCHANGED <<isem, asem, permits, npc, nattempt>>
    /\ NestOnly

\* _do_post: `async with get_async_sem(req["model"])`, then the sleep and the
\* post
EnterAsem(t) ==
    /\ jpc[t] = "want_gate"
    /\ asem > 0
    /\ asem' = asem - 1
    /\ jpc' = [jpc EXCEPT ![t] = "posting"]
    /\ UNCHANGED <<isem, judge_sem, permits, npc, nattempt>>
    /\ NestOnly

\* the post returns: both context managers are left; a status that is
\* retried (degrade or backoff) brings the task back before `async with sem`
\* with attempt + 1, until attempt > max_retries; `attempt` ends with the task
PostEnds(t) ==
    /\ jpc[t] = "posting"
    /\ asem' = Aexit(asem)
    /\ judge_sem' = judge_sem + 1
    /\ \E outcome \in {"final", "retried"} :
          IF outcome = "retried" /\ nattempt[t] < NestMaxRetries
          THEN /\ jpc' = [jpc EXCEPT ![t] = "want_judge"]
               /\ nattempt' = [nattempt EXCEPT ![t] = @ + 1]
          ELSE /\ jpc' = [jpc EXCEPT ![t] = "done"]
               /\ nattempt' = [nattempt EXCEPT ![t] = 0]
    /\ UNCHANGED <<isem, permits, npc>>
    /\ NestOnly

\* the gather of the judge tasks returns: the chunk is stored and item_sem
\* released
ChunkEnds(ch) ==
    /\ npc[ch] = "judging"
    /\ \A j \in NestJudges : jpc[<<ch, j>>] = "done"
    /\ isem' = isem + 1
    /\ npc' = [npc EXCEPT ![ch] = "done"]
    /\ UNCHANGED <<judge_sem, asem, permits, jpc, nattempt>>
    /\ NestOnly

(***************************************************************************)
(*                            Specifications                               *)
(***************************************************************************)
BucketNext ==
    \/ Tick
    \/ \E c \in Callers : Acquire(c)
    \/ \E c \in Callers : EnterLock(c)
    \/ \E c \in Callers : Refill(c)
    \/ \E c \in Callers : Check(c)
    \/ \E c \in Callers : Debit(c)
    \/ \E c \in Callers : ExitLock(c)
    \/ \E c \in Callers : Wake(c)

\* the gates before any call, with the default limit of the 70B model
GateIdle ==
    /\ limit = 1
    /\ semS = 1
    /\ semA = 1
    /\ gpc = [u \in GateUsers |-> "idle"]
    /\ gout = [u \in GateUsers |-> "none"]
    /\ released = {}

InitBucket == BucketInit /\ GateIdle /\ RetryIdle /\ ParseIdle /\ ChunkQuiet /\ VoteIdle /\ AssessQuiet /\ KappaIdle /\ RunIdle /\ LazyIdle /\ NestIdle

SpecBucket == InitBucket /\ [][BucketNext]_vars

\* time advances and every caller is scheduled fairly; the lock is granted to
\* a caller that asks for it again and again
BucketFairness ==
    /\ WF_vars(Tick)
    /\ \A c \in Callers :
          /\ SF_vars(EnterLock(c))
          /\ WF_vars(Refill(c) \/ Check(c) \/ Debit(c) \/ ExitLock(c) \/ Wake(c))

LiveBucket == SpecBucket /\ BucketFairness

GateNext ==
    \/ \E u \in GateUsers : GateCall(u)
    \/ \E u \in GateUsers : GateEnter(u)
    \/ \E u \in GateUsers : ProviderAnswers(u)
    \/ \E u \in GateUsers : GateExit(u)

InitGate == GateInit /\ BucketInit /\ RetryIdle /\ ParseIdle /\ ChunkQuiet /\ VoteIdle /\ AssessQuiet /\ KappaIdle /\ RunIdle /\ LazyIdle /\ NestIdle

SpecGate == InitGate /\ [][GateNext]_vars

RetryNext ==
    \/ CallBatch
    \/ \E k \in Kinds : CallJudge(k)
    \/ Post
    \/ Handle
    \/ Backoff
    \/ AfterLoop
    \/ CallEnds

InitRetry == RetryInit /\ BucketInit /\ GateIdle /\ ParseIdle /\ ChunkQuiet /\ VoteIdle /\ AssessQuiet /\ KappaIdle /\ RunIdle /\ LazyIdle /\ NestIdle

SpecRetry == InitRetry /\ [][RetryNext]_vars

ParseNext == ParseAnswer

InitParse == ParseInit /\ BucketInit /\ GateIdle /\ RetryIdle /\ ChunkQuiet /\ VoteIdle /\ AssessQuiet /\ KappaIdle /\ RunIdle /\ LazyIdle /\ NestIdle

SpecParse == InitParse /\ [][ParseNext]_vars

ChunkNext ==
    \/ \E ch \in Items : StartChunk(ch)
    \/ \E ch \in Items, k \in Slots : JudgeReturns(ch, k)
    \/ \E ch \in Items : ChunkRaises(ch)
    \/ \E ch \in Items : Persist(ch)
    \/ \E ch \in Items : Aggregate(ch)
    \/ RunFails
    \/ RunReturns

InitChunk == ChunkInit /\ build \in Builds /\ RetryQuiet /\ BucketInit /\ GateIdle /\ ParseIdle /\ VoteIdle /\ AssessQuiet /\ KappaIdle /\ RunIdle /\ LazyIdle /\ NestIdle

SpecChunk == InitChunk /\ [][ChunkNext]_vars

VoteNext == \E v \in VoteValues : CastVote(v)

InitVote == VoteIdle /\ BucketInit /\ GateIdle /\ RetryIdle /\ ParseIdle /\ ChunkQuiet /\ AssessQuiet /\ KappaIdle /\ RunIdle /\ LazyIdle /\ NestIdle

SpecVote == InitVote /\ [][VoteNext]_vars

AssessNext ==
    \/ StartItem
    \/ JudgeAnswers
    \/ AggregateItem
    \/ Summarise

InitAssess ==
    AssessInit /\ BucketInit /\ GateIdle /\ RetryIdle /\ ParseIdle /\ ChunkQuiet /\ VoteIdle /\ KappaIdle /\ RunIdle /\ LazyIdle /\ NestIdle

SpecAssess == InitAssess /\ [][AssessNext]_vars

KappaNext == \E row \in KappaRows : RateItem(row)

InitKappa ==
    KappaIdle /\ BucketInit /\ GateIdle /\ RetryIdle /\ ParseIdle /\ ChunkQuiet /\ VoteIdle
    /\ AssessQuiet /\ RunIdle /\ LazyIdle /\ NestIdle

SpecKappa == InitKappa /\ [][KappaNext]_vars

RunNext ==
    \/ AssessStarts
    \/ \E ch \in RunItems : TaskStarts(ch)
    \/ \E ch \in RunItems : TaskAggregates(ch)
    \/ \E ch \in RunItems : TaskRaises(ch)
    \/ AssessReturns
    \/ AssessRaises
    \/ FinishRun
    \/ Materialize

InitRun ==
    RunInit /\ BucketInit /\ GateIdle /\ RetryIdle /\ ParseIdle /\ ChunkQuiet /\ VoteIdle
    /\ AssessQuiet /\ KappaIdle /\ LazyIdle /\ NestIdle

SpecRun == InitRun /\ [][RunNext]_vars

LazyNext ==
    \/ \E c \in LazyCallers : Get(c)
    \/ \E c \in LazyCallers : Create(c)
    \/ \E c \in LazyCallers : Store(c)
    \/ \E c \in LazyCallers : LookupAsync(c)
    \/ \E c \in LazyCallers : DebitBucket(c)

InitLazy ==
    LazyInit /\ BucketInit /\ GateIdle /\ RetryIdle /\ ParseIdle /\ ChunkQuiet /\ VoteIdle
    /\ AssessQuiet /\ KappaIdle /\ RunIdle /\ NestIdle

SpecLazy == InitLazy /\ [][LazyNext]_vars

NestNext ==
    \/ \E ch \in NestChunks : EnterItemSem(ch)
    \/ \E t \in NestTasks : EnterJudgeSem(t)
    \/ \E t \in NestTasks : EnterAsem(t)
    \/ \E t \in NestTasks : PostEnds(t)
    \/ \E ch \in NestChunks : ChunkEnds(ch)

InitNest ==
    NestInit /\ BucketInit /\ GateIdle /\ RetryIdle /\ ParseIdle /\ ChunkQuiet /\ VoteIdle
    /\ AssessQuiet /\ KappaIdle /\ RunIdle /\ LazyIdle

SpecNest == InitNest /\ [][NestNext]_vars

\* the event loop runs a task that is ready to run
LiveNest == SpecNest /\ WF_vars(NestNext)

(***************************************************************************)
(*                                 Claims                                  *)
(***************************************************************************)

\* C1: a judge call never raises to its caller: whatever the provider does,
\* _groq_batch, run_sync and the judge() methods end by returning a result.
C1_JudgeCallNeverRaises == rresult # "raised"

\* C2: every stored verdict of a judge whose call failed terminally is the
\* invalid verdict: a null class label and no passing rubric leaf, so that it
\* adds no class vote and no rubric pass to the item's aggregate.
C2_TerminalFailureStoredInvalid ==
    \A n \in 1..Len(judgments) :
        judgments[n].failed => judgments[n].label = "null" /\ judgments[n].pass # "true"

\* C3: when a chunk task has ended, the verdicts of every judge whose call
\* succeeded are stored for every item of the chunk, whatever happened to the
\* calls of the other judges (the chunk completes in spite of a failed judge).
C3_OtherJudgesVerdictsPersisted ==
    \A ch \in Chunks, k \in Slots :
        (cpc[ch] \in {"done", "raised"} /\ jres[ch][k].st = "ok")
            => \A it \in ItemsOf(ch) :
                  \E n \in 1..Len(judgments) :
                      judgments[n].item = it /\ judgments[n].slot = k

\* C4: the retry loop of a judge call sends at most max_retries + 1 HTTP
\* requests, whatever the provider answers.
C4_AttemptsWithinBudget ==
    kind \in {"batch", "j8b", "j70b"} => posts <= max_retries + 1

\* C5: in every state of the bucket 0 <= tokens <= capacity, and a caller is
\* about to debit its required tokens only when the bucket holds that many.
C5_TokensWithinCapacity ==
    /\ 0 <= tokens
    /\ tokens <= Capacity
    /\ \A c \in Callers : bpc[c] = "debit" => tokens >= required[c]

\* C5 witness: a caller has debited a positive amount, emptying the bucket,
\* while another caller competes for the same bucket.
C5_Witness ==
    \E c \in Callers, d \in Callers :
        /\ c # d
        /\ bpc[c] = "return"
        /\ required[c] > 0
        /\ tokens = 0
        /\ bpc[d] \in {"lock", "sleep"}
        /\ required[d] > 0

\* C6: every call of acquire / acquire_async eventually returns, for every
\* required_tokens value, when time advances and the caller is scheduled
\* fairly.
C6_AcquireEventuallyReturns ==
    \A c \in Callers : (bpc[c] # "idle") ~> (bpc[c] = "idle")

\* the provider calls of the model that are in flight, through either gate
InFlight == {u \in GateUsers : gpc[u] = "inflight"}

\* C7: the number of provider calls in flight for the model, through the
\* blocking gate and the async gate together, never exceeds its limit.
C7_InFlightWithinLimit == Cardinality(InFlight) <= limit

\* C8: whenever no call holds a permit of a gate, all the permits of that gate
\* are free, however the earlier calls ended.
C8_PermitsGivenBack ==
    /\ (\A u \in SyncUsers : gpc[u] \in {"idle", "enter"}) => semS = limit
    /\ (\A u \in AsyncUsers : gpc[u] \in {"idle", "enter"}) => semA = limit

\* C8 witness: calls have ended in each of the four ways, no call holds a
\* permit, and every permit of both gates is free again.
C8_Witness ==
    /\ \A u \in GateUsers : gpc[u] = "idle"
    /\ released = Outcomes
    /\ semS = limit
    /\ semA = limit

\* C9: the verdict list returned for a batch of n items has exactly n
\* elements, whatever answer was parsed.
C9_VerdictCountEqualsItems == ppc = "parsed" => Len(verdicts) = items

\* C9 witness: an answer with more objects than the batch has items was cut,
\* and the batch is not empty.
C9_Witness ==
    /\ ppc = "parsed"
    /\ items > 0
    /\ HasArray(answer.content)
    /\ Len(KeepDicts(_flatten_list(answer.arr))) > items
    /\ Len(verdicts) = items

\* C10: the result never shifts verdicts: at every index below both the length
\* of the provider's array and the number of items, an object the provider put
\* there is the verdict the result holds there.
C10_VerdictsStayInPlace ==
    (ppc = "parsed" /\ answer.body = "choices" /\ HasArray(answer.content))
        => \A i \in 1..Min(Len(answer.arr), items) :
              (~answer.arr[i].nested /\ answer.arr[i].leaf = "obj")
                  => verdicts[i] = [t |-> "obj", at |-> <<i, 0>>]

\* C19: in the retry loop of a Groq judge call only 429/500/502/503/504 and
\* transport exceptions are followed by a backoff and another attempt; after any
\* other non-200 status the call makes no further attempt, except the one
\* attempt that follows the schema degradation of the batch path.
C19_OnlyRetryableRetried ==
    (/\ kind \in {"batch", "j8b", "j70b"}
     /\ rpc \in {"backoff", "loop"}
     /\ posts > 0
     /\ resp.exc = "none"
     /\ resp.status \notin RetryableStatuses \cup {200})
        => (kind = "batch" /\ degraded /\ rpc = "loop")

C20_Step ==
    (kind = "batch" /\ rpc # "idle") =>
        /\ (rpc = "handle" /\ resp.exc = "none" /\ resp.status # 200 /\ fmt = "json_schema")
              => /\ fmt' = "json_object"
                 /\ degraded'
                 /\ attempt' = attempt + 1
                 /\ rpc' = "loop"
        /\ fmt' # fmt => (~degraded /\ degraded')
        /\ degraded => degraded'
        /\ fmt = "json_object" => fmt' = "json_object"

\* C20: within one batch judge call the schema degradation happens at most
\* once: the first non-200 answer under json_schema switches the request to
\* json_object, uses one attempt, and leads back to the loop without a backoff;
\* from then on the call never uses json_schema again.
C20_DegradesOnce == [][C20_Step]_vars

\* C20 witness: a batch call that was degraded has sent a further request,
\* with json_object, and has its answer.
C20_Witness ==
    /\ kind = "batch" /\ rpc = "handle" /\ degraded
    /\ fmt = "json_object" /\ posts >= 2 /\ attempt >= 1

\* C15: the aggregate class label is the label with the most valid votes, and
\* it is "ambiguous" when both labels have the same number of votes, whatever
\* the order of the votes.
C15_TieGivesAmbiguous ==
    LET a == NumberOf("ambiguous", mvotes)
        u == NumberOf("unambiguous", mvotes)
    IN  /\ a > u => mresult.label = "ambiguous"
        /\ u > a => mresult.label = "unambiguous"
        /\ a = u => mresult.label = "ambiguous"

\* C17: for every vote list, values outside the categories included,
\* majority_label returns a label of {ambiguous, unambiguous}, counts for
\* exactly these two categories, and tie = TRUE iff the two counts are equal.
C17_MajorityLabelWellFormed ==
    /\ mresult.label \in CATS
    /\ DOMAIN mresult.counts = CATS
    /\ \A c \in CATS : mresult.counts[c] = NumberOf(c, mvotes)
    /\ mresult.tie <=> (mresult.counts["ambiguous"] = mresult.counts["unambiguous"])

\* C17 witness: a list with a value outside the categories and unequal counts
\* of the two categories has been judged.
C17_Witness ==
    /\ NumberOf("maybe", mvotes) > 0
    /\ NumberOf("unambiguous", mvotes) > NumberOf("ambiguous", mvotes)
    /\ NumberOf("ambiguous", mvotes) > 0
    /\ mresult.label = "unambiguous" /\ ~mresult.tie

\* the verdict judge slot k's task returned for item it, before _normalize_verdict
RawVerdict(it, k) == jres[ChunkOf(it)][k].vs[it]

\* lines 370-383 and 505-507: all_item_votes of assess_async, one row per item
\* in item order, holding the normalised labels of judges 1, 2 and (if any) 3
AsyncVoteRows ==
    [it \in Items |->
        [k \in 1..(IF HasSlot(3) THEN 3 ELSE 2) |-> NormalizeVerdict(RawVerdict(it, k)).label]]

\* C11: every class vote fed to the majority vote, Dawid-Skene and the kappas
\* is a label of {ambiguous, unambiguous} that the judge returned; a missing,
\* null or out-of-set label gives no vote.
C11_VotesAreReturnedLabels ==
    \A n \in 1..Len(judgments) :
        judgments[n].label \in CATS
            => RawVerdict(judgments[n].item, judgments[n].slot).label = judgments[n].label

\* C14: when no judge gave a usable boolean for the rubric dimension of an item,
\* the aggregate outcome of the dimension is null, never true or false.
C14_NoBooleanGivesNull ==
    \A it \in Items :
        (/\ aggregates[it].present
         /\ \A k \in Slots : HasSlot(k) => RawVerdict(it, k).pass = "absent")
            => aggregates[it].yesno = "null"

\* C12: in the vote matrix whose columns go to cohens_kappa, column k of every
\* item's row holds the vote of the k-th configured judge, also for an item for
\* which some judge gave no valid label.  (sdata holds the judges' data of the
\* last item of the run.)
C12_ColumnsAlignedWithJudges ==
    (spc = "done" /\ Len(cols) >= 2)
        => \A k \in 1..Len(cols) : cols[k][NumSyncItems] = sdata[k].label

\* the judges that gave a boolean for the dimension, and those that passed
GaveBoolean == {k \in 1..Len(sdata) : sdata[k].pass \in {"true", "false"}}
Passed == {k \in 1..Len(sdata) : sdata[k].pass = "true"}

\* C13: with total_present the number of judges that gave a boolean for the
\* dimension and y the number of those that passed, the aggregate outcome is
\* yes iff y > total_present / 2 when total_present > 2, and iff y >= 1 when
\* total_present is 1 or 2.  (Checked when the aggregate of an item has just
\* been written, for the item whose data sdata holds.)
C13_RubricMajorityRule ==
    (spc \in {"item", "summary"} /\ sitem > 1 /\ Cardinality(GaveBoolean) >= 1)
        => (s_aggregates[sitem - 1].yesno = "true"
              <=> IF Cardinality(GaveBoolean) > 2
                  THEN 2 * Cardinality(Passed) > Cardinality(GaveBoolean)
                  ELSE Cardinality(Passed) >= 1)

\* C16: the needs_review flag written by aggregation is true iff the class
\* votes of the item are tied or hold more than one distinct label; votes
\* [ambiguous, ambiguous, unambiguous] give ambiguous with needs_review true,
\* votes [unambiguous, unambiguous] give unambiguous with needs_review false.
C16_NeedsReviewIffTiedOrSplit ==
    \A it \in SyncItems :
        (s_aggregates[it].present /\ s_aggregates[it].by = "aggregation")
            => LET v == all_item_votes[it]
                   a == NumberOf("ambiguous", v)
                   u == NumberOf("unambiguous", v)
               IN  /\ s_aggregates[it].needs_review <=> (a = u \/ (a > 0 /\ u > 0))
                   /\ v = <<"ambiguous", "ambiguous", "unambiguous">>
                        => (s_aggregates[it].agg_label = "ambiguous"
                            /\ s_aggregates[it].needs_review)
                   /\ v = <<"unambiguous", "unambiguous">>
                        => (s_aggregates[it].agg_label = "unambiguous"
                            /\ ~s_aggregates[it].needs_review)

\* C16 witness: one item was aggregated from the votes [ambiguous, ambiguous,
\* unambiguous] and is flagged, another from [unambiguous, unambiguous] and is
\* not.
C16_Witness ==
    \E i, j \in SyncItems :
        /\ s_aggregates[i].present /\ s_aggregates[i].by = "aggregation"
        /\ all_item_votes[i] = <<"ambiguous", "ambiguous", "unambiguous">>
        /\ s_aggregates[i].needs_review
        /\ s_aggregates[j].present /\ s_aggregates[j].by = "aggregation"
        /\ all_item_votes[j] = <<"unambiguous", "unambiguous">>
        /\ ~s_aggregates[j].needs_review

\* C18: at the end of a run every item whose Dawid-Skene label differs from
\* its majority-vote aggregate label has needs_review = true.
C18_DemotedItemsNeedReview ==
    spc = "done"
        => \A it \in SyncItems :
              ds_labels[it] # s_aggregates[it].agg_label => s_aggregates[it].needs_review

\* C18 witness: a run has ended with an item whose Dawid-Skene label differs
\* from its aggregate label, upserted again with needs_review true.
C18_Witness ==
    /\ spc = "done"
    /\ \E it \in SyncItems :
          /\ ds_labels[it] # s_aggregates[it].agg_label
          /\ s_aggregates[it].by = "ds"
          /\ s_aggregates[it].needs_review

\* C16 on the asynchronous path: the same equivalence for the aggregates
\* process_batch writes from the stored judgments.
C16_AsyncNeedsReviewIffTiedOrSplit ==
    \A it \in Items :
        aggregates[it].present
            => LET a == NumberOf("ambiguous", aggregates[it].votes)
                   u == NumberOf("unambiguous", aggregates[it].votes)
               IN  aggregates[it].needs_review <=> (a = u \/ (a > 0 /\ u > 0))

\* C18 on the asynchronous path, which never upserts after the Dawid-Skene
\* estimate: whatever the anchor priors, an item whose Dawid-Skene label
\* differs from its aggregate label was already flagged by the aggregation.
C18_AsyncDemotedItemsNeedReview ==
    runpc = "returned"
        => \A priors \in [Items -> Priors] :
              \A ds \in {dawid_skene_binary(AsyncVoteRows, priors)} :
                  \A it \in Items :
                     ds[it] # aggregates[it].agg_label => aggregates[it].needs_review

\* the base the backoff starts from: the Retry-After header if present, else
\* the "try again in" value of the body, else 0.5 s (in milliseconds)
C21_Base ==
    IF resp.retry_after # 0 THEN resp.retry_after
    ELSE IF resp.body = "hint" THEN resp.hint
    ELSE 500

C21_Step ==
    (/\ kind \in {"batch", "j8b", "j70b"}
     /\ rpc = "handle" /\ rpc' = "backoff"
     /\ resp.exc = "none" /\ resp.status \in RetryableStatuses)
        => /\ backoff' = Min(Max(C21_Base, 250), 2000) * (4 + attempt)
           /\ backoff' <= 2000 * (4 + max_retries)

\* C21: after a retryable status on attempt k the backoff sleep equals
\* clamp(base, 0.25 s, 2.0 s) x (1 + 0.25 k), base being the Retry-After value,
\* else the "try again in" value of the body, else 0.5 s; so no backoff sleep
\* exceeds 2.0 x (1 + 0.25 max_retries) seconds.  (Sleeps are in quarter
\* milliseconds: 1 + 0.25 k is 4 + k.)
C21_BackoffFormula == [][C21_Step]_vars

\* C21, the bound alone: no sleep after a retryable status exceeds
\* 2.0 x (1 + 0.25 max_retries) seconds.
C21_BackoffBound ==
    (/\ kind \in {"batch", "j8b", "j70b"} /\ rpc = "backoff"
     /\ resp.exc = "none" /\ resp.status \in RetryableStatuses)
        => backoff <= 2000 * (4 + max_retries)

\* lines 620-646 of assess: the rows add_judgment has stored for the item just
\* aggregated, one per judge called (verdict_obj keeps a label of the
\* categories, a boolean pass and a numeric confidence, else null)
StoredSyncRows ==
    [k \in 1..Len(sdata) |->
        [item |-> sitem - 1, judge |-> sjudges[k],
         label |-> sdata[k].label, pass |-> sdata[k].pass, conf |-> sdata[k].conf]]

\* C22: an item's aggregate is upserted only after the verdicts of all
\* configured judges are stored for it, and after the upsert the stored
\* aggregate equals the aggregation of all judgments stored for the item.
\* (Checked in assess when the aggregate of an item has just been written.)
C22_AggregateFromStoredJudgments ==
    (spc \in {"item", "summary"} /\ sitem > 1)
        => LET ref == AggregateRows(StoredSyncRows)
               agg == s_aggregates[sitem - 1]
           IN  /\ Len(StoredSyncRows) = Len(sjudges)
               /\ agg.agg_label = ref.agg_label
               /\ agg.needs_review = ref.needs_review
               /\ agg.yesno = ref.yesno
               /\ agg.confidence = ref.confidence

\* C22 on the asynchronous path: every aggregate process_batch has written
\* is the aggregation of the rows stored for its item, and rows of every
\* judge slot are among them.
C22_AsyncAggregateFromStoredJudgments ==
    \A it \in Items :
        aggregates[it].present
            => /\ aggregates[it] = AggregateOf(it)
               /\ \A k \in Slots :
                     HasSlot(k) => \E n \in 1..Len(judgments) :
                                      judgments[n].item = it /\ judgments[n].slot = k

\* C23: no two stored judgments of a run share the same (item, judge) pair,
\* whatever judge list the request carried.
C23_OneJudgmentPerJudge ==
    \A m, n \in 1..Len(judgments) :
        m # n => ~(/\ judgments[m].item = judgments[n].item
                   /\ judgments[m].judge = judgments[n].judge)

\* C29: for every aggregate written, the pass count of the rubric dimension
\* is at most total_present, and a confidence that is not null lies in [0, 1]
\* (0..1000 thousandths).
C29_PassesWithinPresent ==
    \A it \in Items :
        aggregates[it].present
            => /\ aggregates[it].y <= aggregates[it].total_present
               /\ aggregates[it].confidence # <<>>
                     => aggregates[it].confidence[1] \in 0..1000

\* C29 in assess: the same for the aggregates of the synchronous path.
C29_SyncPassesWithinPresent ==
    \A it \in SyncItems :
        s_aggregates[it].present
            => /\ s_aggregates[it].y <= s_aggregates[it].total_present
               /\ s_aggregates[it].confidence # <<>>
                     => s_aggregates[it].confidence[1] \in 0..1000

\* -1 <= k <= 1 for a fraction k with a positive denominator
WithinUnit(k) == 0 - k.d <= k.n /\ k.n <= k.d

\* the expected agreement P_e of fleiss_kappa is 1: every vote of the matrix
\* is for the same category and every row is as long as the longest
FleissExpectedIsOne ==
    /\ kvotes # <<>>
    /\ \E c \in CATS :
          \A i \in 1..Len(kvotes) :
              /\ Len(kvotes[i]) = MaxLenOf(kvotes, Len(kvotes))
              /\ \A k \in 1..Len(kvotes[i]) : kvotes[i][k] = c

\* C24: for every vote matrix with entries in {ambiguous, unambiguous}, a
\* single rater per item included, fleiss_kappa returns a value in [-1, 1];
\* cohens_kappa returns a value in [-1, 1] for every pair of equal-length
\* vectors; each returns exactly 0 when its expected agreement is 1.
C24_KappasWithinUnit ==
    /\ WithinUnit(kfleiss)
    /\ kcohen # <<>> => WithinUnit(kcohen[1])
    /\ FleissExpectedIsOne => kfleiss.n = 0
    /\ (kcohen # <<>> /\ CohenExpected(Zip(kvotes)[1], Zip(kvotes)[2]) = Frac(1, 1))
          => kcohen[1].n = 0

\* C24 without the range of fleiss_kappa: cohens_kappa lies in [-1, 1] and
\* both kappas are 0 when the expected agreement is 1.
C24_CohenWithinUnit ==
    /\ kcohen # <<>> => WithinUnit(kcohen[1])
    /\ FleissExpectedIsOne => kfleiss.n = 0
    /\ (kcohen # <<>> /\ CohenExpected(Zip(kvotes)[1], Zip(kvotes)[2]) = Frac(1, 1))
          => kcohen[1].n = 0

\* C25: Dawid-Skene is idempotent: dawid_skene_binary called again on the same
\* votes, with the labels it returned as the priors, returns those labels.
\* (Checked at the end of a run of assess, for its vote matrix and priors.)
C25_DawidSkeneIdempotent ==
    spc = "done" => dawid_skene_binary(all_item_votes, ds_labels) = ds_labels

\* C25 witness: a run has ended in which the estimate moved a label away from
\* the prior of its item; run again from its own labels it returns them.
C25_Witness ==
    /\ spc = "done"
    /\ \E it \in SyncItems :
          /\ anchor_priors[it] \in CATS
          /\ ds_labels[it] # anchor_priors[it]
    /\ dawid_skene_binary(all_item_votes, ds_labels) = ds_labels

\* C26: after any interleaving of the chunk tasks there is at most one
\* aggregate row per item of the run, and no upsert is lost or mixed with
\* that of another item: an item has a row iff an aggregate was upserted for
\* it, and the row holds what its last upsert was given.
C26_OneAggregateRowPerItem ==
    /\ \A m, n \in 1..Len(agg_table) : m # n => agg_table[m].item # agg_table[n].item
    /\ \A it \in RunItems :
          IF upserted[it] = "none"
          THEN \A n \in 1..Len(agg_table) : agg_table[n].item # it
          ELSE \E n \in 1..Len(agg_table) :
                  agg_table[n].item = it /\ agg_table[n].agg_label = upserted[it]

\* C26 witness: chunk tasks have ended in another order than they were
\* created, with different labels, and every item has its row.
C26_Witness ==
    /\ Len(agg_table) = NumRunItems
    /\ agg_table[1].item # 1
    /\ \E m, n \in 1..Len(agg_table) : agg_table[m].agg_label # agg_table[n].agg_label
    /\ \A it \in RunItems : upserted[it] # "none"

C27_Step ==
    /\ status = "DONE" => (status' = "DONE" /\ summary' = summary)
    /\ status' # status =>
          \/ status = "QUEUED" /\ status' = "PROCESSING"
          \/ status = "PROCESSING" /\ status' \in {"DONE", "FAILED"}

\* C27: once the summary is written and the status set to DONE, no later step
\* of the run changes the status or the summary; the status goes from QUEUED
\* to PROCESSING and then to exactly one of DONE and FAILED.
C27_DoneIsFinal == [][C27_Step]_vars

\* C28: all callers of one key share one TokenBucket: when several callers
\* ask for capacity on a key that has no bucket yet, exactly one bucket is
\* created and every caller's debit is made on that bucket.
C28_OneBucketPerKey ==
    /\ created <= 1
    /\ \A c, d \in LazyCallers :
          (debited[c] # 0 /\ debited[d] # 0) => debited[c] = debited[d]

\* The coroutines alone: as long as no thread has entered acquire_capacity,
\* the callers of acquire_capacity_async share one bucket.
C28_CoroutinesShareOneBucket ==
    (\A c \in LazyThreads : lpc[c] = "get") => C28_OneBucketPerKey

NestFinished ==
    /\ \A ch \in NestChunks : npc[ch] = "done"
    /\ \A t \in NestTasks : jpc[t] = "done"
    /\ isem = permits["item"]
    /\ judge_sem = permits["judge"]
    /\ asem = permits["gate"]

\* C30: the nested acquisition of item_sem, judge_sem and the per-model gate
\* never deadlocks: whatever the permits of the three semaphores, when every
\* provider call ends, every chunk task and judge task eventually finishes
\* and every semaphore has all its permits free again.
C30_NestedAcquisitionTerminates == <>[]NestFinished

\* C30 witness: the three semaphores are held nested and waited for: a chunk
\* waits for item_sem, a judge task that holds judge_sem waits for the gate,
\* and the task that holds the gate is posting in a retry.
C30_Witness ==
    /\ \E ch \in NestChunks : npc[ch] = "queued" /\ isem = 0
    /\ \E t \in NestTasks : jpc[t] = "want_gate" /\ asem = 0
    /\ \E t \in NestTasks : jpc[t] = "posting" /\ nattempt[t] > 0

=============================================================================
